---- MODULE Spec2Model ----
(***************************************************************************)
(* A model of the server routes of Legends of Valor (src/unnamed/part_000):*)
(* the session registry, the skill auction engine and the trading routes.  *)
(* Time is in milliseconds, as Date.now() is.  Account ids stand for the   *)
(* usernames they were created for (usernames are unique).                 *)
(***************************************************************************)
EXTENDS Integers, Sequences, FiniteSets, TLC

----------------------------------------------------------------------------
(* Program constants *)

MAX_PLAYERS == 20

SESSION_TIMEOUT == 5 * 60 * 1000

AUCTION_DURATION == 8 * 60 * 60 * 1000

STARTING_GOLD == 10000

\* fighters: z.array(z.string()).min(1).max(4)
MAX_FIGHTERS == 4

----------------------------------------------------------------------------
(* Bounds of the model *)

\* accounts that exist beyond the capacity of the server
Surplus == 1

\* accounts whose requests are enumerated; the others only hold a session
NumActors == 2

\* steps of the clock in one behaviour
MaxTicks == 2

\* skill auctions created in one behaviour
MaxAuctions == 2

\* bids placed in one behaviour
MaxBids == 2

\* trades created in one behaviour
MaxTrades == 1

\* event-stream connections opened in one behaviour
MaxSinks == 3

\* solo NPC battles requested in one behaviour
MaxFights == 2

\* guild invites open at one time
MaxInvites == 4

\* the balance updates requested stay within this distance of 0
MaxBalance == 1

\* a deposit or a distribution leaves no balance above this
MaxBank == 2

\* guild battles created in one behaviour
MaxBattles == 1

\* the longest fighter list a request carries
MaxLineup == 5

\* challenges created in one behaviour
MaxChallenges == 1

\* winner assignments one challenge takes in one behaviour
MaxResults == 2

\* items attached to trades in one behaviour
MaxItems == 2

\* steps of eight hours the clock takes in one behaviour of the auctions
MaxAuctionTicks == 1

NumUsers == MAX_PLAYERS + Surplus

Users == 1..NumUsers

Actors == (NumUsers - NumActors + 1)..NumUsers

Background == Users \ Actors

Roles == {"player", "admin"}

\* a request's password: the one its account was created with, or another
Passwords == {"stored", "other"}

\* the clock advances by one millisecond or by the idle threshold
TickSteps == {1, SESSION_TIMEOUT}

NoAccount == [role |-> "none"]

----------------------------------------------------------------------------
VARIABLES
    accounts,        \* storage: account id -> [role] or NoAccount
    gold,            \* storage: account id -> gold balance
    activeSessions,  \* the activeSessions map: account id -> lastActivity
    now,             \* Date.now()
    ticks,           \* clock steps taken so far
    last,            \* the last operation handled and its reply
    auctions,        \* storage: the skill auctions, in order of creation
    bids,            \* storage: the skill bids, in order of creation
    playerSkills,    \* storage: the player-skill records, in order of creation
    applied,         \* per auction: a finalization ran, its debits, its grants
    race,            \* the finalizations in flight: where each is, what it read
    trades,          \* storage: the trades, in order of creation
    tradeItems,      \* storage: the items attached to trades, in order of creation
    inventory,       \* storage: inventory item id -> the account that owns it
    executions,      \* per trade, the times its items were transferred
    acceptance,      \* per trade, who accepted since its item list last changed
    challenges,      \* storage: the 1v1 challenges, in order of creation
    wins,            \* storage: account id -> wins
    losses,          \* storage: account id -> losses
    awards,          \* per challenge: winner assignments, wins and losses given
    guilds,          \* storage: guild id -> [masterId, wins] or NoGuild
    guildMembers,    \* storage: account id -> the guilds of its membership rows
    guildBattles,    \* storage: the guild battles, in order of creation
    outcomes,        \* per guild battle: the sides that won its rounds, in order
    sinks,           \* the event-stream responses, in order of connection
    adminSSEConnections,   \* the adminSSEConnections map: admin id -> sink, or 0
    playerSSEConnections,  \* the playerSSEConnections map: player id -> sink, or 0
    pc,              \* per route in progress: the statements it has executed
    profiles,        \* storage: account id -> the fields the battles read and write
    pets,            \* storage: pet id -> pet, or NoPet
    result,          \* the reply of the last solo NPC battle, with its luck roll
    fought,          \* the number of solo NPC battles requested
    npc,             \* the reply of the last GET /api/npc/:floor/:level
    guildNames,      \* storage: guild id -> its name, "" for an id never given
    guildInvites,    \* storage: the guild invites, each <<guild id, account id>>
    guildBank,       \* storage: guild id -> the bank of the guild
    dungeon,         \* storage: guild id -> dungeonFloor and dungeonLevel
    dungeonReply     \* the reply of the last guild dungeon fight

aucVars == <<auctions, bids, playerSkills, applied>>

tradeVars == <<trades, tradeItems, inventory, executions, acceptance>>

chalVars == <<challenges, wins, losses, awards>>

\* the state of the engines below the auctions and the trades
guildVars == <<guilds, guildMembers, guildBattles, outcomes>>

sseVars == <<sinks, adminSSEConnections, playerSSEConnections>>

soloVars == <<profiles, pets, result, fought, npc>>

moreGuildVars == <<guildNames, guildInvites, guildBank, dungeon, dungeonReply>>

moreVars == <<pc, soloVars, moreGuildVars>>

restVars == <<chalVars, guildVars, sseVars, moreVars>>

vars == <<accounts, gold, activeSessions, now, ticks, last, aucVars, race, tradeVars,
          restVars>>

----------------------------------------------------------------------------
(* Session registry *)

\* a sweep that also evicts a session idle for exactly the threshold
cleanupEvictsAtThreshold(sessions, t) ==
    LET keep == {id \in DOMAIN sessions : ~(t - sessions[id] >= SESSION_TIMEOUT)}
    IN  [id \in keep |-> sessions[id]]

\* the sessions that survive a sweep at time t
cleanupInactiveSessions(sessions, t) ==
    LET keep == {id \in DOMAIN sessions : ~(t - sessions[id] > SESSION_TIMEOUT)}
    IN  [id \in keep |-> sessions[id]]

\* activeSessions.set(id, {..., lastActivity: t})
SetSession(sessions, id, t) ==
    [k \in DOMAIN sessions \cup {id} |-> IF k = id THEN t ELSE sessions[k]]

\* activeSessions.delete(id)
DeleteSession(sessions, id) ==
    [k \in DOMAIN sessions \ {id} |-> sessions[k]]

\* a capacity test that forgets the account may hold a session already
ExistingFullNoReentry(sessions, id) ==
    Cardinality(DOMAIN sessions) >= MAX_PLAYERS

\* the capacity test of a login for an account that exists
ExistingFull(sessions, id) ==
    id \notin DOMAIN sessions /\ Cardinality(DOMAIN sessions) >= MAX_PLAYERS

\* a capacity test that lets one login too many through
NewFullOffByOne(sessions) ==
    Cardinality(DOMAIN sessions) > MAX_PLAYERS

\* the capacity test of a login that would create an account
NewFull(sessions) ==
    Cardinality(DOMAIN sessions) >= MAX_PLAYERS

\* what a request leaves behind: its reply (status, and the counts a 503
\* carries) and, for the record, the session map it found on arrival
Reply(op, id, status, current) ==
    [op |-> op, id |-> id, status |-> status, currentPlayers |-> current,
     maxPlayers |-> IF status = 503 THEN MAX_PLAYERS ELSE 0,
     sizeBefore |-> Cardinality(DOMAIN activeSessions),
     had |-> id \in DOMAIN activeSessions]

\* bcrypt.compare(password, existing.password)
PasswordMatch(existing, p) == p = "stored"

\* a role check that lets an admin account in under either role
RoleMismatchAdminExempt(existing, r) == existing.role # r /\ existing.role # "admin"

\* existing.role !== role
RoleMismatch(existing, r) == existing.role # r

\* POST /api/accounts/login
Login(u, p, r) ==
    LET swept == cleanupInactiveSessions(activeSessions, now)
        existing == accounts[u]
        size == Cardinality(DOMAIN swept)
    IN  /\ u \in Users /\ p \in Passwords /\ r \in Roles
        /\ IF existing # NoAccount
           THEN IF ~PasswordMatch(existing, p)
                THEN /\ activeSessions' = swept
                     /\ last' = Reply("login", u, 401, 0)
                     /\ UNCHANGED <<accounts, gold>>
                ELSE IF RoleMismatch(existing, r)
                THEN /\ activeSessions' = swept
                     /\ last' = Reply("login", u, 403, 0)
                     /\ UNCHANGED <<accounts, gold>>
                ELSE IF ExistingFull(swept, u)
                THEN /\ activeSessions' = swept
                     /\ last' = Reply("login", u, 503, size)
                     /\ UNCHANGED <<accounts, gold>>
                ELSE /\ activeSessions' = SetSession(swept, u, now)
                     /\ last' = Reply("login", u, 200, 0)
                     /\ UNCHANGED <<accounts, gold>>
           ELSE IF NewFull(swept)
                THEN /\ activeSessions' = swept
                     /\ last' = Reply("login", u, 503, size)
                     /\ UNCHANGED <<accounts, gold>>
                ELSE /\ accounts' = [accounts EXCEPT ![u] = [role |-> r]]
                     /\ gold' = [gold EXCEPT ![u] = IF r = "player" THEN STARTING_GOLD ELSE 0]
                     /\ activeSessions' = SetSession(swept, u, now)
                     /\ last' = Reply("login", u, 201, 0)
        /\ UNCHANGED <<now, ticks, aucVars, race, tradeVars, restVars>>

\* POST /api/accounts/:id/heartbeat
Heartbeat(id) ==
    /\ id \in Users
    /\ IF id \in DOMAIN activeSessions
       THEN /\ activeSessions' = [activeSessions EXCEPT ![id] = now]
            /\ last' = Reply("heartbeat", id, 200, 0)
       ELSE /\ last' = Reply("heartbeat", id, 404, 0)
            /\ UNCHANGED activeSessions
    /\ UNCHANGED <<accounts, gold, now, ticks, aucVars, race, tradeVars, restVars>>

\* POST /api/accounts/:id/logout
Logout(id) ==
    /\ id \in Users
    /\ activeSessions' = DeleteSession(activeSessions, id)
    /\ last' = Reply("logout", id, 200, 0)
    /\ UNCHANGED <<accounts, gold, now, ticks, aucVars, race, tradeVars, restVars>>

\* DELETE /api/accounts/:id
DeleteAccount(id) ==
    /\ id \in Users
    /\ IF accounts[id] = NoAccount
       THEN /\ last' = Reply("delete", id, 404, 0)
            /\ UNCHANGED <<accounts, gold, activeSessions>>
       ELSE IF accounts[id].role = "admin"
       THEN /\ last' = Reply("delete", id, 403, 0)
            /\ UNCHANGED <<accounts, gold, activeSessions>>
       ELSE /\ accounts' = [accounts EXCEPT ![id] = NoAccount]
            /\ gold' = [gold EXCEPT ![id] = 0]
            /\ activeSessions' = DeleteSession(activeSessions, id)
            /\ last' = Reply("delete", id, 204, 0)
    /\ UNCHANGED <<now, ticks, aucVars, race, tradeVars, restVars>>

\* setInterval(cleanupInactiveSessions, 60000)
Sweep ==
    /\ activeSessions' = cleanupInactiveSessions(activeSessions, now)
    /\ last' = Reply("sweep", 0, 0, 0)
    /\ UNCHANGED <<accounts, gold, now, ticks, aucVars, race, tradeVars, restVars>>

\* the clock
Tick(d) ==
    /\ ticks < MaxTicks
    /\ now' = now + d
    /\ ticks' = ticks + 1
    /\ last' = Reply("tick", 0, 0, 0)
    /\ UNCHANGED <<accounts, gold, activeSessions, aucVars, race, tradeVars, restVars>>

\* storage without a trade or an inventory item
NoTrades ==
    /\ trades = <<>> /\ tradeItems = <<>> /\ inventory = <<>>
    /\ executions = <<>> /\ acceptance = <<>>

\* storage without a challenge, every record at 0 wins and 0 losses
NoChallenges ==
    /\ challenges = <<>> /\ awards = <<>>
    /\ wins = [u \in Users |-> 0]
    /\ losses = [u \in Users |-> 0]

GuildIds == {1, 2}

\* the routes taken statement by statement
Handlers == {"accept", "roundWinner", "finalize", "loginA", "loginB",
             "tradeAcceptA", "tradeAcceptB"}

NoGuild == [masterId |-> 0, wins |-> 0, exists |-> FALSE]

\* storage without a guild or a guild battle
NoGuilds ==
    /\ guilds = [g \in GuildIds |-> NoGuild]
    /\ guildMembers = [u \in Users |-> {}]
    /\ guildBattles = <<>> /\ outcomes = <<>>

\* nobody is connected to an event stream
NoSubscribers ==
    /\ sinks = <<>>
    /\ adminSSEConnections = [u \in Users |-> 0]
    /\ playerSSEConnections = [u \in Users |-> 0]

\* the number lo
N(lo) == [hi |-> 0, lo |-> lo]

NoEquipped == [weapon |-> 0, armor |-> 0, accessory1 |-> 0, accessory2 |-> 0]

NoPet == [accountId |-> 0]

NoRewards == [gold |-> 0, trainingPoints |-> 0, soulShards |-> 0, petExp |-> 0, runes |-> 0]

NoResult == [accountId |-> 0, floor |-> 0, level |-> 0, roll |-> 0, won |-> FALSE,
             rewards |-> NoRewards, npcImmunities |-> <<>>, petElementImmune |-> FALSE]

NoNpc == [status |-> 0, floor |-> 0, level |-> 0, globalLevel |-> 0,
          immuneElements |-> <<>>]

\* the stats of an account as it is created
DefaultStats == [Str |-> N(10), Spd |-> 10, Int |-> 10, Luck |-> 10, Pot |-> 0]

\* the account fields the battles read and write, as an account starts
NoProfile ==
    [npcFloor |-> 1, npcLevel |-> 1, rank |-> "Novice", stats |-> DefaultStats,
     equipped |-> NoEquipped, equippedPetId |-> 0, trainingPoints |-> 0,
     soulShards |-> 0, runes |-> 0, petExp |-> 0, rubies |-> 0, focusedShards |-> 0]

PetIds == {1, 2, 3}

\* nothing fought, no NPC looked up
NoSolo ==
    /\ profiles = [u \in Users |-> NoProfile]
    /\ pets = [p \in PetIds |-> NoPet]
    /\ result = NoResult
    /\ fought = 0
    /\ npc = NoNpc

\* the names guilds are created with
Names == <<"a", "b">>

NoBank ==
    [gold |-> 0, rubies |-> 0, soulShards |-> 0, focusedShards |-> 0, runes |-> 0,
     trainingPoints |-> 0]

NoDungeonReply == [status |-> 0]

\* no guild invite, empty banks, the dungeon not entered
NoMoreGuild ==
    /\ guildNames = [g \in GuildIds |-> IF guilds[g].exists THEN Names[g] ELSE ""]
    /\ guildInvites = {}
    /\ guildBank = [g \in GuildIds |-> NoBank]
    /\ dungeon = [g \in GuildIds |-> [floor |-> 1, level |-> 1]]
    /\ dungeonReply = NoDungeonReply

\* no route is part-way through its statements, nothing fought
NoMore ==
    /\ pc = [h \in Handlers |-> 0]
    /\ NoSolo
    /\ NoMoreGuild

\* the engines below the auctions and the trades, before their first request
NoRest == NoChallenges /\ NoGuilds /\ NoSubscribers /\ NoMore

\* the two finalizations of an auction (admin route, timer) at rest
RaceIdle ==
    [fin |-> [pc |-> "idle", a |-> 0, hb |-> 0, balance |-> 0, next |-> 0],
     tmr |-> [pc |-> "idle", a |-> 0, hb |-> 0, balance |-> 0, next |-> 0]]

\* the background players are logged in at time 0; the actors are unknown
InitSession ==
    /\ accounts = [u \in Users |-> IF u \in Background
                                   THEN [role |-> "player"]
                                   ELSE NoAccount]
    /\ gold = [u \in Users |-> IF u \in Background THEN STARTING_GOLD ELSE 0]
    /\ activeSessions = [u \in Background |-> 0]
    /\ now = 0
    /\ ticks = 0
    /\ last = Reply("init", 0, 0, 0)
    /\ auctions = <<>> /\ bids = <<>> /\ playerSkills = <<>> /\ applied = <<>>
    /\ race = RaceIdle
    /\ NoTrades
    /\ NoRest

NextSession ==
    \/ \E u \in Actors, p \in Passwords, r \in Roles : Login(u, p, r)
    \/ \E id \in Actors : Heartbeat(id)
    \/ \E id \in Actors : Logout(id)
    \/ \E id \in Actors : DeleteAccount(id)
    \/ Sweep
    \/ \E d \in TickSteps : Tick(d)

SpecSession == InitSession /\ [][NextSession]_vars

----------------------------------------------------------------------------
(* Skill auction engine.  The replies of these routes are not kept: a      *)
(* rejected request is a step that changes nothing.                        *)

Skills == {"fireball", "heal"}

\* the amounts bid, and the balances PATCH /gold sets
Amounts == {1, 2, 3}

GoldValues == {0, 1, 2}

\* the accounts of the auction house: an admin, two bidders, an unknown id
AdminId == 1

Bidders == {2, 3}

UnknownId == 4

NoWinner == 0

\* the place of an auction whose row storage.deleteSkillAuction removed
Deleted == [skillId |-> "none", status |-> "deleted", endAt |-> 0,
            winnerId |-> NoWinner, winningBidId |-> 0]

\* storage.getActiveAuction(): the auctions it may return
ActiveAuctions(aucs) == {a \in DOMAIN aucs : aucs[a].status = "active"}

\* storage.getQueuedAuctions()[0]: the queued auction created first, or 0
FirstQueued(aucs) ==
    LET queued == {a \in DOMAIN aucs : aucs[a].status = "queued"}
    IN  IF queued = {} THEN 0
        ELSE CHOOSE a \in queued : \A b \in queued : a <= b

\* storage.getHighestBid(auctionId): the highest bid of the auction (the
\* earliest of them among equals), or 0
HighestBid(a) ==
    LET of == {b \in DOMAIN bids : bids[b].auctionId = a}
    IN  IF of = {} THEN 0
        ELSE CHOOSE b \in of :
               \A c \in of : \/ bids[c].amount < bids[b].amount
                             \/ (bids[c].amount = bids[b].amount /\ b <= c)

\* the admin guard of the auction routes: 0 when the request may proceed
AdminCheck(adminId) ==
    IF adminId \notin DOMAIN activeSessions THEN 401
    ELSE IF accounts[adminId] = NoAccount \/ accounts[adminId].role # "admin" THEN 403
    ELSE 0

\* a balance test that also turns away a bid of the bidder's whole balance
NotEnoughGoldStrict(accountId, amount) ==
    gold[accountId] <= amount

\* the bidder cannot pay the amount now
NotEnoughGold(accountId, amount) ==
    gold[accountId] < amount

\* the bid is not above the current highest bid
NotHigher(amount, highest) ==
    highest # 0 /\ amount <= bids[highest].amount

\* POST /api/auctions/:auctionId/bid
Bid(a, accountId, amount) ==
    /\ Len(bids) < MaxBids
    /\ IF a \notin DOMAIN auctions \/ auctions[a].status = "deleted"
       THEN UNCHANGED bids
       ELSE IF auctions[a].status # "active"
       THEN UNCHANGED bids
       ELSE IF accounts[accountId] = NoAccount
       THEN UNCHANGED bids
       ELSE IF NotEnoughGold(accountId, amount)
       THEN UNCHANGED bids
       ELSE IF NotHigher(amount, HighestBid(a))
       THEN UNCHANGED bids
       ELSE bids' = Append(bids, [auctionId |-> a, bidderId |-> accountId,
                                  amount |-> amount])
    /\ UNCHANGED <<accounts, gold, activeSessions, now, ticks, last,
                   auctions, playerSkills, applied, race, tradeVars, restVars>>

\* POST /api/admin/auctions/queue
QueueAdd(adminId, skillId) ==
    /\ Len(auctions) < MaxAuctions
    /\ IF AdminCheck(adminId) # 0
       THEN UNCHANGED <<auctions, applied>>
       ELSE /\ auctions' = Append(auctions,
                [skillId |-> skillId, status |-> "queued", endAt |-> 0,
                 winnerId |-> NoWinner, winningBidId |-> 0])
            /\ applied' = Append(applied, [ran |-> FALSE, debits |-> 0, grants |-> 0])
    /\ UNCHANGED <<accounts, gold, activeSessions, now, ticks, last,
                   bids, playerSkills, race, tradeVars, restVars>>

\* updateSkillAuction(id, {status: "active", startAt: now, endAt: now + 8h})
Started(aucs, a) ==
    [aucs EXCEPT ![a].status = "active", ![a].endAt = now + AUCTION_DURATION]

\* POST /api/admin/auctions/start-next
StartNext(adminId) ==
    /\ IF AdminCheck(adminId) # 0
       THEN UNCHANGED auctions
       ELSE IF ActiveAuctions(auctions) # {}
       THEN UNCHANGED auctions
       ELSE IF FirstQueued(auctions) = 0
       THEN UNCHANGED auctions
       ELSE auctions' = Started(auctions, FirstQueued(auctions))
    /\ UNCHANGED <<accounts, gold, activeSessions, now, ticks, last,
                   bids, playerSkills, applied, race, tradeVars, restVars>>

\* winner && winner.gold >= highestBid.amount
Affords(w, balance, amount) ==
    accounts[w] # NoAccount /\ balance >= amount

\* the finalization of auction a, as both the admin route and the timer run
\* it: the storage it leaves
Settle(a) ==
    LET hb == HighestBid(a)
        w == bids[hb].bidderId
        amount == bids[hb].amount
    IN  IF hb # 0
        THEN IF Affords(w, gold[w], amount)
             THEN [gold |-> [gold EXCEPT ![w] = gold[w] - amount],
                   playerSkills |-> Append(playerSkills,
                       [accountId |-> w, skillId |-> auctions[a].skillId,
                        source |-> "auction"]),
                   auctions |-> [auctions EXCEPT ![a].status = "completed",
                                                 ![a].winningBidId = hb,
                                                 ![a].winnerId = w],
                   applied |-> [applied EXCEPT ![a].ran = TRUE,
                                               ![a].debits = @ + 1,
                                               ![a].grants = @ + 1]]
             ELSE [gold |-> gold, playerSkills |-> playerSkills,
                   auctions |-> auctions,
                   applied |-> [applied EXCEPT ![a].ran = TRUE]]
        ELSE [gold |-> gold, playerSkills |-> playerSkills,
              auctions |-> [auctions EXCEPT ![a].status = "completed"],
              applied |-> [applied EXCEPT ![a].ran = TRUE]]

\* POST /api/admin/auctions/finalize
Finalize(adminId) ==
    /\ IF AdminCheck(adminId) # 0
       THEN UNCHANGED <<gold, auctions, playerSkills, applied>>
       ELSE IF ActiveAuctions(auctions) = {}
       THEN UNCHANGED <<gold, auctions, playerSkills, applied>>
       ELSE \E a \in ActiveAuctions(auctions) :
            /\ gold' = Settle(a).gold
            /\ playerSkills' = Settle(a).playerSkills
            /\ auctions' = Settle(a).auctions
            /\ applied' = Settle(a).applied
    /\ UNCHANGED <<accounts, activeSessions, now, ticks, last, bids, race, tradeVars, restVars>>

\* DELETE /api/admin/auctions/:auctionId
DeleteAuction(adminId, a) ==
    /\ IF AdminCheck(adminId) # 0
       THEN UNCHANGED auctions
       ELSE IF a \notin DOMAIN auctions \/ auctions[a].status = "deleted"
       THEN UNCHANGED auctions
       ELSE IF auctions[a].status = "active"
       THEN UNCHANGED auctions
       ELSE auctions' = [auctions EXCEPT ![a] = Deleted]
    /\ UNCHANGED <<accounts, gold, activeSessions, now, ticks, last,
                   bids, playerSkills, applied, race, tradeVars, restVars>>

\* now >= new Date(activeAuction.endAt), for an auction that has an endAt
AuctionExpired(aucs, a) ==
    aucs[a].endAt # 0 /\ now >= aucs[a].endAt

\* the auction timer: setInterval(async () => {...}, 60000)
AuctionTimer ==
    /\ IF ActiveAuctions(auctions) = {}
       THEN UNCHANGED <<gold, auctions, playerSkills, applied>>
       ELSE \E a \in ActiveAuctions(auctions) :
            IF AuctionExpired(auctions, a)
            THEN LET after == Settle(a).auctions
                     next == FirstQueued(after)
                 IN  /\ gold' = Settle(a).gold
                     /\ playerSkills' = Settle(a).playerSkills
                     /\ applied' = Settle(a).applied
                     /\ auctions' = IF next # 0 THEN Started(after, next) ELSE after
            ELSE UNCHANGED <<gold, auctions, playerSkills, applied>>
    /\ UNCHANGED <<accounts, activeSessions, now, ticks, last, bids, race, tradeVars, restVars>>

\* PATCH /api/accounts/:id/gold
SetGold(id, g) ==
    /\ IF accounts[id] = NoAccount
       THEN UNCHANGED gold
       ELSE gold' = [gold EXCEPT ![id] = g]
    /\ UNCHANGED <<accounts, activeSessions, now, ticks, last, aucVars, race, tradeVars, restVars>>

\* an admin and the first bidder are logged in, the second bidder is not
InitAuction ==
    /\ accounts = [u \in Users |->
                     IF u = AdminId THEN [role |-> "admin"]
                     ELSE IF u \in Bidders THEN [role |-> "player"]
                     ELSE NoAccount]
    /\ gold = [u \in Users |-> IF u \in Bidders THEN 2 ELSE 0]
    /\ activeSessions = [u \in {AdminId, 2} |-> 0]
    /\ now = 0
    /\ ticks = 0
    /\ last = Reply("init", 0, 0, 0)
    /\ auctions = <<>> /\ bids = <<>> /\ playerSkills = <<>> /\ applied = <<>>
    /\ race = RaceIdle
    /\ NoTrades
    /\ NoRest

NextAuction ==
    \/ \E a \in 1..MaxAuctions, id \in Bidders \cup {UnknownId}, x \in Amounts :
          Bid(a, id, x)
    \/ \E adminId \in {AdminId} \cup Bidders, k \in Skills : QueueAdd(adminId, k)
    \/ \E adminId \in {AdminId} \cup Bidders : StartNext(adminId)
    \/ \E adminId \in {AdminId} \cup Bidders : Finalize(adminId)
    \/ \E adminId \in {AdminId} \cup Bidders, a \in 1..MaxAuctions :
          DeleteAuction(adminId, a)
    \/ AuctionTimer
    \/ \E id \in Bidders \cup {UnknownId}, g \in GoldValues : SetGold(id, g)
    \/ ticks < MaxAuctionTicks /\ Tick(AUCTION_DURATION)

SpecAuction == InitAuction /\ [][NextAuction]_vars

\* the bidding alone: one skill, the admin's requests authorised
NextBidding ==
    \/ \E a \in 1..MaxAuctions, id \in Bidders \cup {UnknownId}, x \in Amounts :
          Bid(a, id, x)
    \/ QueueAdd(AdminId, "fireball")
    \/ StartNext(AdminId)
    \/ Finalize(AdminId)
    \/ \E id \in Bidders, g \in GoldValues : SetGold(id, g)

SpecBidding == InitAuction /\ [][NextBidding]_vars

----------------------------------------------------------------------------
(* The two finalizations of an auction, one storage call (one await) a     *)
(* step: p = "fin" is POST /api/admin/auctions/finalize, p = "tmr" is the  *)
(* auction timer.  What a call returned stays in race[p] until it is used. *)

Procs == {"fin", "tmr"}

\* where a finalization goes when it has settled or given up: the admin route
\* replies, the timer reads the queue
AfterSettle(p) == IF p = "tmr" THEN "queue" ELSE "done"

\* await storage.getActiveAuction(), and the timer's test of endAt
GetActive(p) ==
    /\ race[p].pc = "idle"
    /\ p = "fin" => AdminCheck(AdminId) = 0
    /\ IF ActiveAuctions(auctions) = {}
       THEN race' = [race EXCEPT ![p].pc = "done"]
       ELSE \E a \in ActiveAuctions(auctions) :
            IF p = "tmr" /\ ~AuctionExpired(auctions, a)
            THEN race' = [race EXCEPT ![p].pc = "done"]
            ELSE race' = [race EXCEPT ![p].pc = "active", ![p].a = a]
    /\ UNCHANGED <<accounts, gold, activeSessions, now, ticks, last, aucVars, tradeVars, restVars>>

\* await storage.getHighestBid(activeAuction.id)
GetHighest(p) ==
    /\ race[p].pc = "active"
    /\ race' = [race EXCEPT ![p].hb = HighestBid(race[p].a),
                            ![p].pc = IF HighestBid(race[p].a) # 0
                                      THEN "bid" ELSE "nobids"]
    /\ UNCHANGED <<accounts, gold, activeSessions, now, ticks, last, aucVars, tradeVars, restVars>>

\* await storage.getAccount(highestBid.bidderId), and the test of the balance
GetWinner(p) ==
    LET w == bids[race[p].hb].bidderId
        amount == bids[race[p].hb].amount
    IN  /\ race[p].pc = "bid"
        /\ race' = [race EXCEPT ![p].balance = gold[w],
                                ![p].pc = IF Affords(w, gold[w], amount)
                                          THEN "debit" ELSE AfterSettle(p)]
        /\ UNCHANGED <<accounts, gold, activeSessions, now, ticks, last, aucVars, tradeVars, restVars>>

\* await storage.updateAccountGold(winner.id, winner.gold - highestBid.amount)
Debit(p) ==
    LET w == bids[race[p].hb].bidderId
        amount == bids[race[p].hb].amount
    IN  /\ race[p].pc = "debit"
        /\ gold' = [gold EXCEPT ![w] = race[p].balance - amount]
        /\ applied' = [applied EXCEPT ![race[p].a].ran = TRUE,
                                      ![race[p].a].debits = @ + 1]
        /\ race' = [race EXCEPT ![p].pc = "grant"]
        /\ UNCHANGED <<accounts, activeSessions, now, ticks, last,
                       auctions, bids, playerSkills, tradeVars, restVars>>

\* await storage.addPlayerSkill({accountId, skillId, source: "auction"})
Grant(p) ==
    LET w == bids[race[p].hb].bidderId
    IN  /\ race[p].pc = "grant"
        /\ playerSkills' = Append(playerSkills,
               [accountId |-> w, skillId |-> auctions[race[p].a].skillId,
                source |-> "auction"])
        /\ applied' = [applied EXCEPT ![race[p].a].grants = @ + 1]
        /\ race' = [race EXCEPT ![p].pc = "complete"]
        /\ UNCHANGED <<accounts, gold, activeSessions, now, ticks, last,
                       auctions, bids, tradeVars, restVars>>

\* await storage.updateSkillAuction(id, {status: "completed", winningBidId, winnerId})
Complete(p) ==
    /\ race[p].pc = "complete"
    /\ auctions' = [auctions EXCEPT ![race[p].a].status = "completed",
                                    ![race[p].a].winningBidId = race[p].hb,
                                    ![race[p].a].winnerId = bids[race[p].hb].bidderId]
    /\ race' = [race EXCEPT ![p].pc = AfterSettle(p)]
    /\ UNCHANGED <<accounts, gold, activeSessions, now, ticks, last,
                   bids, playerSkills, applied, tradeVars, restVars>>

\* await storage.updateSkillAuction(id, {status: "completed"}), without bids
CompleteNoBids(p) ==
    /\ race[p].pc = "nobids"
    /\ auctions' = [auctions EXCEPT ![race[p].a].status = "completed"]
    /\ applied' = [applied EXCEPT ![race[p].a].ran = TRUE]
    /\ race' = [race EXCEPT ![p].pc = AfterSettle(p)]
    /\ UNCHANGED <<accounts, gold, activeSessions, now, ticks, last,
                   bids, playerSkills, tradeVars, restVars>>

\* the timer: await storage.getQueuedAuctions()
TimerGetQueue ==
    /\ race.tmr.pc = "queue"
    /\ race' = [race EXCEPT !.tmr.next = FirstQueued(auctions),
                            !.tmr.pc = IF FirstQueued(auctions) # 0
                                       THEN "start" ELSE "done"]
    /\ UNCHANGED <<accounts, gold, activeSessions, now, ticks, last, aucVars, tradeVars, restVars>>

\* the timer: await storage.updateSkillAuction(nextAuction.id, {status: "active", ...})
TimerStartNext ==
    /\ race.tmr.pc = "start"
    /\ auctions' = Started(auctions, race.tmr.next)
    /\ race' = [race EXCEPT !.tmr.pc = "done"]
    /\ UNCHANGED <<accounts, gold, activeSessions, now, ticks, last,
                   bids, playerSkills, applied, tradeVars, restVars>>

\* the first auction has run its eight hours, with no bid, one or two; the
\* second is queued or was not created; the admin calls finalize as the timer
\* fires
InitRace ==
    /\ accounts = [u \in Users |->
                     IF u = AdminId THEN [role |-> "admin"]
                     ELSE IF u \in Bidders THEN [role |-> "player"]
                     ELSE NoAccount]
    /\ \E g \in {0, 2, 4} :
          gold = [u \in Users |-> IF u = 2 THEN g ELSE IF u = 3 THEN 1 ELSE 0]
    /\ activeSessions = [u \in {AdminId, 2} |-> 0]
    /\ now = AUCTION_DURATION
    /\ ticks = 1
    /\ last = Reply("init", 0, 0, 0)
    /\ \E n \in 1..2 :
          /\ auctions = [a \in 1..n |->
                [skillId |-> IF a = 1 THEN "fireball" ELSE "heal",
                 status |-> IF a = 1 THEN "active" ELSE "queued",
                 endAt |-> IF a = 1 THEN AUCTION_DURATION ELSE 0,
                 winnerId |-> NoWinner, winningBidId |-> 0]]
          /\ applied = [a \in 1..n |-> [ran |-> FALSE, debits |-> 0, grants |-> 0]]
    /\ bids \in {<<>>,
                 <<[auctionId |-> 1, bidderId |-> 2, amount |-> 2]>>,
                 <<[auctionId |-> 1, bidderId |-> 3, amount |-> 1],
                   [auctionId |-> 1, bidderId |-> 2, amount |-> 2]>>}
    /\ playerSkills = <<>>
    /\ race = RaceIdle
    /\ NoTrades
    /\ NoRest

NextRace ==
    \/ \E p \in Procs : GetActive(p)
    \/ \E p \in Procs : GetHighest(p)
    \/ \E p \in Procs : GetWinner(p)
    \/ \E p \in Procs : Debit(p)
    \/ \E p \in Procs : Grant(p)
    \/ \E p \in Procs : Complete(p)
    \/ \E p \in Procs : CompleteNoBids(p)
    \/ TimerGetQueue
    \/ TimerStartNext

SpecRace == InitRace /\ [][NextRace]_vars

----------------------------------------------------------------------------
(* Trading.  A rejected request is a step that changes nothing.            *)

Traders == {2, 3}

ItemTypes == {"item", "skill"}

RefIds == {1, 2}

\* the party has the item in its inventory, or owns the skill
Owns(ownerId, type, refId) ==
    IF type = "item"
    THEN refId \in DOMAIN inventory /\ inventory[refId] = ownerId
    ELSE refId \in DOMAIN playerSkills /\ playerSkills[refId].accountId = ownerId

\* POST /api/trades
CreateTrade(initiatorId, recipientId) ==
    /\ Len(trades) < MaxTrades
    /\ IF initiatorId = recipientId
       THEN UNCHANGED <<trades, executions, acceptance>>
       ELSE /\ trades' = Append(trades,
                [initiatorId |-> initiatorId, recipientId |-> recipientId,
                 initiatorAccepted |-> FALSE, recipientAccepted |-> FALSE,
                 status |-> "pending"])
            /\ executions' = Append(executions, 0)
            /\ acceptance' = Append(acceptance, [since |-> {}, cleared |-> FALSE])
    /\ UNCHANGED <<restVars, accounts, gold, activeSessions, now, ticks, last, aucVars, race,
                   tradeItems, inventory>>

\* an update that clears the flag of the initiator alone
ResetInitiatorOnly(trade) ==
    [trade EXCEPT !.initiatorAccepted = FALSE]

\* updateTrade(trade.id, {initiatorAccepted: false, recipientAccepted: false})
ResetAcceptance(trade) ==
    [trade EXCEPT !.initiatorAccepted = FALSE, !.recipientAccepted = FALSE]

\* POST /api/trades/:tradeId/items
AddItem(t, ownerId, type, refId) ==
    /\ Len(tradeItems) < MaxItems
    /\ IF t \notin DOMAIN trades
       THEN UNCHANGED <<trades, tradeItems, acceptance>>
       ELSE IF trades[t].status # "pending"
       THEN UNCHANGED <<trades, tradeItems, acceptance>>
       ELSE IF ownerId # trades[t].initiatorId /\ ownerId # trades[t].recipientId
       THEN UNCHANGED <<trades, tradeItems, acceptance>>
       ELSE IF ~Owns(ownerId, type, refId)
       THEN UNCHANGED <<trades, tradeItems, acceptance>>
       ELSE /\ trades' = [trades EXCEPT ![t] = ResetAcceptance(trades[t])]
            /\ tradeItems' = Append(tradeItems,
                [tradeId |-> t, ownerId |-> ownerId, type |-> type, refId |-> refId])
            /\ acceptance' = [acceptance EXCEPT ![t] =
                [since |-> {},
                 cleared |-> @.cleared \/ trades[t] # ResetAcceptance(trades[t])]]
    /\ UNCHANGED <<restVars, accounts, gold, activeSessions, now, ticks, last, aucVars, race,
                   inventory, executions>>

\* a test of the accepting party's own flag instead of the other party's
BothAcceptedOwnFlag(trade, isInitiator, isRecipient) ==
    \/ (isInitiator /\ trade.initiatorAccepted)
    \/ (isRecipient /\ trade.recipientAccepted)

\* (isInitiator && trade.recipientAccepted) || (isRecipient && trade.initiatorAccepted)
BothAccepted(trade, isInitiator, isRecipient) ==
    \/ (isInitiator /\ trade.recipientAccepted)
    \/ (isRecipient /\ trade.initiatorAccepted)

\* the new owner of an attached item: the party other than the one it is tagged with
NewOwner(trade, item) ==
    IF item.ownerId = trade.initiatorId THEN trade.recipientId ELSE trade.initiatorId

\* the loop over the attached items: the inventory and the skills it leaves
RECURSIVE Transfer(_, _, _, _)
Transfer(items, trade, inv, skills) ==
    IF items = <<>> THEN [inventory |-> inv, playerSkills |-> skills]
    ELSE LET item == Head(items)
             to == NewOwner(trade, item)
         IN  IF item.type = "item"
             THEN Transfer(Tail(items), trade,
                           IF item.refId \in DOMAIN inv /\ inv[item.refId] # 0
                           THEN [inv EXCEPT ![item.refId] = to] ELSE inv,
                           skills)
             ELSE Transfer(Tail(items), trade, inv,
                           IF item.refId \in DOMAIN skills
                           THEN [skills EXCEPT ![item.refId].accountId = to]
                           ELSE skills)

\* storage.getTradeItems(trade.id)
TradeItemsOf(t) == SelectSeq(tradeItems, LAMBDA item : item.tradeId = t)

\* PATCH /api/trades/:tradeId/accept
Accept(t, accountId) ==
    /\ IF t \notin DOMAIN trades
       THEN UNCHANGED <<trades, inventory, playerSkills, executions, acceptance>>
       ELSE IF trades[t].status # "pending"
       THEN UNCHANGED <<trades, inventory, playerSkills, executions, acceptance>>
       ELSE IF accountId # trades[t].initiatorId /\ accountId # trades[t].recipientId
       THEN UNCHANGED <<trades, inventory, playerSkills, executions, acceptance>>
       ELSE LET trade == trades[t]
                isInitiator == accountId = trade.initiatorId
                isRecipient == accountId = trade.recipientId
                updated == [trade EXCEPT
                              !.initiatorAccepted = IF isInitiator THEN TRUE ELSE @,
                              !.recipientAccepted = IF isRecipient THEN TRUE ELSE @]
                moved == Transfer(TradeItemsOf(t), trade, inventory, playerSkills)
            IN  /\ acceptance' = [acceptance EXCEPT ![t].since = @ \cup {accountId}]
                /\ IF BothAccepted(trade, isInitiator, isRecipient)
                   THEN /\ inventory' = moved.inventory
                        /\ playerSkills' = moved.playerSkills
                        /\ trades' = [trades EXCEPT
                                        ![t] = [updated EXCEPT !.status = "completed"]]
                        /\ executions' = [executions EXCEPT ![t] = @ + 1]
                   ELSE /\ trades' = [trades EXCEPT ![t] = updated]
                        /\ UNCHANGED <<inventory, playerSkills, executions>>
    /\ UNCHANGED <<restVars, accounts, gold, activeSessions, now, ticks, last, race,
                   auctions, bids, applied, tradeItems>>

\* PATCH /api/trades/:tradeId/cancel
Cancel(t, accountId) ==
    /\ IF t \notin DOMAIN trades
       THEN UNCHANGED trades
       ELSE IF accountId # trades[t].initiatorId /\ accountId # trades[t].recipientId
       THEN UNCHANGED trades
       ELSE trades' = [trades EXCEPT ![t].status = "cancelled"]
    /\ UNCHANGED <<restVars, accounts, gold, activeSessions, now, ticks, last, aucVars, race,
                   tradeItems, inventory, executions, acceptance>>

\* two players, each with an inventory item, the first with a skill as well
InitTrade ==
    /\ accounts = [u \in Users |->
                     IF u = AdminId THEN [role |-> "admin"]
                     ELSE IF u \in Traders THEN [role |-> "player"]
                     ELSE NoAccount]
    /\ gold = [u \in Users |-> 0]
    /\ activeSessions = [u \in {AdminId, 2} |-> 0]
    /\ now = 0
    /\ ticks = 0
    /\ last = Reply("init", 0, 0, 0)
    /\ auctions = <<>> /\ bids = <<>> /\ applied = <<>>
    /\ playerSkills = <<[accountId |-> 2, skillId |-> "fireball", source |-> "auction"]>>
    /\ race = RaceIdle
    /\ trades = <<>> /\ tradeItems = <<>>
    /\ inventory = <<2, 3>>
    /\ executions = <<>> /\ acceptance = <<>>
    /\ NoRest

NextTrade ==
    \/ \E i \in Traders, r \in Traders : CreateTrade(i, r)
    \/ \E t \in 1..MaxTrades, o \in Traders \cup {UnknownId},
          ty \in ItemTypes, ref \in RefIds : AddItem(t, o, ty, ref)
    \/ \E t \in 1..MaxTrades, id \in Traders \cup {UnknownId} : Accept(t, id)
    \/ \E t \in 1..MaxTrades, id \in Traders \cup {UnknownId} : Cancel(t, id)

SpecTrade == InitTrade /\ [][NextTrade]_vars

----------------------------------------------------------------------------
(* Challenge engine.  A rejected request is a step that changes nothing.   *)

Players == {2, 3}

NoChallengeWinner == 0

\* POST /api/challenges
CreateChallenge(challengerId, challengedId) ==
    /\ Len(challenges) < MaxChallenges
    /\ IF challengerId = challengedId
       THEN UNCHANGED <<challenges, awards>>
       ELSE IF accounts[challengerId] = NoAccount \/ accounts[challengedId] = NoAccount
       THEN UNCHANGED <<challenges, awards>>
       ELSE /\ challenges' = Append(challenges,
                [challengerId |-> challengerId, challengedId |-> challengedId,
                 status |-> "pending", winnerId |-> NoChallengeWinner])
            /\ awards' = Append(awards, [sets |-> 0, wins |-> 0, losses |-> 0])
    /\ UNCHANGED <<accounts, gold, activeSessions, now, ticks, last, aucVars, race,
                   tradeVars, wins, losses, guildVars, sseVars, moreVars>>

\* a status test that lets an accepted challenge through as well
NotPendingNorAccepted(challenge) ==
    challenge.status \notin {"pending", "accepted"}

\* challenge.status !== "pending"
NotPending(challenge) ==
    challenge.status # "pending"

\* storage.updateChallengeStatus(id, status)
updateChallengeStatus(c, status) ==
    [challenges EXCEPT ![c].status = status]

\* the body the accept, decline and cancel routes share
Respond(c, status) ==
    /\ IF c \notin DOMAIN challenges
       THEN UNCHANGED challenges
       ELSE IF NotPending(challenges[c])
       THEN UNCHANGED challenges
       ELSE challenges' = updateChallengeStatus(c, status)
    /\ UNCHANGED <<accounts, gold, activeSessions, now, ticks, last, aucVars, race,
                   tradeVars, wins, losses, awards, guildVars, sseVars, moreVars>>

\* PATCH /api/challenges/:id/accept
AcceptChallenge(c) == Respond(c, "accepted")

\* PATCH /api/challenges/:id/decline
DeclineChallenge(c) == Respond(c, "declined")

\* PATCH /api/challenges/:id/cancel
CancelChallenge(c) == Respond(c, "cancelled")

\* winnerId !== challenge.challengerId && winnerId !== challenge.challengedId
NotParticipant(challenge, winnerId) ==
    winnerId # challenge.challengerId /\ winnerId # challenge.challengedId

\* a status test that lets a pending challenge through as well
NotAcceptedNorPending(challenge) ==
    challenge.status \notin {"accepted", "pending"}

\* challenge.status !== "accepted"
NotAccepted(challenge) ==
    challenge.status # "accepted"

\* storage.setChallengeWinner(id, winnerId): the winner is recorded, the
\* status stays one of pending, accepted, declined, cancelled
setChallengeWinner(c, winnerId) ==
    [challenges EXCEPT ![c].winnerId = winnerId]

\* PATCH /api/admin/challenges/:id/winner
SetWinner(c, winnerId) ==
    /\ IF c \notin DOMAIN challenges
       THEN UNCHANGED <<challenges, wins, losses, awards>>
       ELSE IF NotAccepted(challenges[c])
       THEN UNCHANGED <<challenges, wins, losses, awards>>
       ELSE IF NotParticipant(challenges[c], winnerId)
       THEN UNCHANGED <<challenges, wins, losses, awards>>
       ELSE LET loserId == IF winnerId = challenges[c].challengerId
                           THEN challenges[c].challengedId
                           ELSE challenges[c].challengerId
                winner == accounts[winnerId] # NoAccount
                loser == accounts[loserId] # NoAccount
            IN  /\ awards[c].sets < MaxResults
                /\ challenges' = setChallengeWinner(c, winnerId)
                /\ wins' = IF winner THEN [wins EXCEPT ![winnerId] = @ + 1] ELSE wins
                /\ losses' = IF loser THEN [losses EXCEPT ![loserId] = @ + 1] ELSE losses
                /\ awards' = [awards EXCEPT
                                ![c].sets = @ + 1,
                                ![c].wins = IF winner THEN @ + 1 ELSE @,
                                ![c].losses = IF loser THEN @ + 1 ELSE @]
    /\ UNCHANGED <<accounts, gold, activeSessions, now, ticks, last, aucVars, race,
                   tradeVars, guildVars, sseVars, moreVars>>

\* an admin and two players, no challenge yet
InitChallenge ==
    /\ accounts = [u \in Users |->
                     IF u = AdminId THEN [role |-> "admin"]
                     ELSE IF u \in Players THEN [role |-> "player"]
                     ELSE NoAccount]
    /\ gold = [u \in Users |-> 0]
    /\ activeSessions = [u \in {AdminId, 2} |-> 0]
    /\ now = 0
    /\ ticks = 0
    /\ last = Reply("init", 0, 0, 0)
    /\ auctions = <<>> /\ bids = <<>> /\ playerSkills = <<>> /\ applied = <<>>
    /\ race = RaceIdle
    /\ NoTrades
    /\ NoChallenges
    /\ NoGuilds
    /\ NoSubscribers
    /\ NoMore

NextChallenge ==
    \/ \E a \in Players \cup {UnknownId}, b \in Players \cup {UnknownId} :
          CreateChallenge(a, b)
    \/ \E c \in 1..MaxChallenges : AcceptChallenge(c)
    \/ \E c \in 1..MaxChallenges : DeclineChallenge(c)
    \/ \E c \in 1..MaxChallenges : CancelChallenge(c)
    \/ \E c \in 1..MaxChallenges, w \in Players \cup {AdminId} : SetWinner(c, w)
    \/ \E id \in Players : DeleteAccount(id)

SpecChallenge == InitChallenge /\ [][NextChallenge]_vars

----------------------------------------------------------------------------
(* Guild battles.  A rejected request is a step that changes nothing.      *)

NoGuildWinner == 0

\* the members of the two guilds, the master first
Roster(g) == IF g = 1 THEN <<2, 3>> ELSE <<4, 5>>

Fighters == {2, 3, 4, 5}

\* a fighter list of n members of guild g
Lineup(g, n) == [i \in 1..n |-> Roster(g)[1 + (i % 2)]]

\* the lengths of the fighter lists the requests carry
LineupSizes == {0, 1, 3, MaxLineup}

\* the fighter lists a master of guild g sends: of its members, or with the
\* master of another guild among them
Lineups(g) ==
    {Lineup(g, n) : n \in LineupSizes} \cup {<<Roster(g)[1], Roster(3 - g)[1]>>}

\* storage.getGuildMembers(guildId).map(m => m.accountId)
MemberIds(g) == {u \in Users : g \in guildMembers[u]}

\* for (const fighterId of fighters) if (!memberIds.includes(fighterId)) ...
AllMembers(fighters, g) ==
    \A i \in DOMAIN fighters : fighters[i] \in MemberIds(g)

\* challengeSchema: fighters: z.array(z.string()).min(1).max(4)
ChallengeSchemaOk(fighters) ==
    Len(fighters) >= 1 /\ Len(fighters) <= MAX_FIGHTERS

\* POST /api/guilds/:guildId/battles/challenge
ChallengeGuild(g, accountId, targetGuildId, fighters) ==
    /\ Len(guildBattles) < MaxBattles
    /\ IF ~ChallengeSchemaOk(fighters)
       THEN UNCHANGED <<guildBattles, outcomes>>
       ELSE IF ~guilds[g].exists
       THEN UNCHANGED <<guildBattles, outcomes>>
       ELSE IF guilds[g].masterId # accountId
       THEN UNCHANGED <<guildBattles, outcomes>>
       ELSE IF ~guilds[targetGuildId].exists
       THEN UNCHANGED <<guildBattles, outcomes>>
       ELSE IF ~AllMembers(fighters, g)
       THEN UNCHANGED <<guildBattles, outcomes>>
       ELSE /\ guildBattles' = Append(guildBattles,
                [challengerGuildId |-> g, challengedGuildId |-> targetGuildId,
                 challengerFighters |-> fighters, challengedFighters |-> <<>>,
                 status |-> "pending", currentRound |-> 0,
                 challengerScore |-> 0, challengedScore |-> 0,
                 challengerCurrentIndex |-> 0, challengedCurrentIndex |-> 0,
                 winnerId |-> NoGuildWinner])
            /\ outcomes' = Append(outcomes, <<>>)
    /\ UNCHANGED <<accounts, gold, activeSessions, now, ticks, last, aucVars, race,
                   tradeVars, chalVars, sseVars, moreVars, guilds, guildMembers>>

\* responseSchema: fighters: z.array(z.string()).optional()
RespondSchemaOk(fighters) ==
    TRUE

\* !targetGuild || targetGuild.masterId !== accountId
NotTargetMaster(battle, accountId) ==
    \/ ~guilds[battle.challengedGuildId].exists
    \/ guilds[battle.challengedGuildId].masterId # accountId

\* PATCH /api/guild-battles/:battleId/respond
RespondBattle(b, accountId, accept, fighters) ==
    /\ IF ~RespondSchemaOk(fighters)
       THEN UNCHANGED guildBattles
       ELSE IF b \notin DOMAIN guildBattles
       THEN UNCHANGED guildBattles
       ELSE IF guildBattles[b].status # "pending"
       THEN UNCHANGED guildBattles
       ELSE IF NotTargetMaster(guildBattles[b], accountId)
       THEN UNCHANGED guildBattles
       ELSE IF accept
       THEN IF Len(fighters) = 0
            THEN UNCHANGED guildBattles
            ELSE IF ~AllMembers(fighters, guildBattles[b].challengedGuildId)
            THEN UNCHANGED guildBattles
            ELSE guildBattles' = [guildBattles EXCEPT
                                    ![b].status = "in_progress",
                                    ![b].challengedFighters = fighters,
                                    ![b].currentRound = 1]
       ELSE guildBattles' = [guildBattles EXCEPT ![b].status = "declined"]
    /\ UNCHANGED <<accounts, gold, activeSessions, now, ticks, last, aucVars, race,
                   tradeVars, chalVars, sseVars, moreVars, guilds, guildMembers, outcomes>>

\* a status test that lets a completed battle through as well
NotInProgressNorCompleted(battle) ==
    battle.status \notin {"in_progress", "completed"}

\* battle.status !== "in_progress"
NotInProgress(battle) ==
    battle.status # "in_progress"

\* the fighter a list has at a 0-based index, or 0 past its end
FighterAt(fighters, index) ==
    IF index + 1 \in DOMAIN fighters THEN fighters[index + 1] ELSE 0

\* winnerId !== challengerFighterId && winnerId !== challengedFighterId
NotCurrentFighter(battle, winnerId) ==
    /\ winnerId # FighterAt(battle.challengerFighters, battle.challengerCurrentIndex)
    /\ winnerId # FighterAt(battle.challengedFighters, battle.challengedCurrentIndex)

\* a round after which the winner's own team moves to its next fighter
AfterRoundWinnerAdvances(battle, winnerId) ==
    IF winnerId = FighterAt(battle.challengerFighters, battle.challengerCurrentIndex)
    THEN [challengerScore |-> battle.challengerScore + 1,
          challengedScore |-> battle.challengedScore,
          challengerIndex |-> battle.challengerCurrentIndex + 1,
          challengedIndex |-> battle.challengedCurrentIndex,
          side |-> "challenger"]
    ELSE [challengerScore |-> battle.challengerScore,
          challengedScore |-> battle.challengedScore + 1,
          challengerIndex |-> battle.challengerCurrentIndex,
          challengedIndex |-> battle.challengedCurrentIndex + 1,
          side |-> "challenged"]

\* the new scores and indices: the winner stays, the loser's team advances
AfterRound(battle, winnerId) ==
    IF winnerId = FighterAt(battle.challengerFighters, battle.challengerCurrentIndex)
    THEN [challengerScore |-> battle.challengerScore + 1,
          challengedScore |-> battle.challengedScore,
          challengerIndex |-> battle.challengerCurrentIndex,
          challengedIndex |-> battle.challengedCurrentIndex + 1,
          side |-> "challenger"]
    ELSE [challengerScore |-> battle.challengerScore,
          challengedScore |-> battle.challengedScore + 1,
          challengerIndex |-> battle.challengerCurrentIndex + 1,
          challengedIndex |-> battle.challengedCurrentIndex,
          side |-> "challenged"]

\* a team counted out when it is on its last fighter
OutOfFightersOnLast(index, fighters) ==
    index >= Len(fighters) - 1

\* newIndex >= fighters.length
OutOfFighters(index, fighters) ==
    index >= Len(fighters)

\* a winner by score that gives a tie to the challenger
WinningGuildTieToChallenger(battle, challengerScore, challengedScore) ==
    IF challengerScore >= challengedScore THEN battle.challengerGuildId
    ELSE battle.challengedGuildId

\* the winner by score, none on a tie
WinningGuild(battle, challengerScore, challengedScore) ==
    IF challengerScore > challengedScore THEN battle.challengerGuildId
    ELSE IF challengerScore < challengedScore THEN battle.challengedGuildId
    ELSE NoGuildWinner

\* the round-winner route: what it does to the battle and to the guilds
Designate(b, winnerId) ==
    /\ IF b \notin DOMAIN guildBattles
       THEN UNCHANGED <<guildBattles, guilds>>
       ELSE IF NotInProgress(guildBattles[b])
       THEN UNCHANGED <<guildBattles, guilds>>
       ELSE IF NotCurrentFighter(guildBattles[b], winnerId)
       THEN UNCHANGED <<guildBattles, guilds>>
       ELSE LET battle == guildBattles[b]
                new == AfterRound(battle, winnerId)
                battleComplete ==
                    \/ OutOfFighters(new.challengerIndex, battle.challengerFighters)
                    \/ OutOfFighters(new.challengedIndex, battle.challengedFighters)
                winningGuildId ==
                    WinningGuild(battle, new.challengerScore, new.challengedScore)
                scored == [battle EXCEPT
                             !.challengerScore = new.challengerScore,
                             !.challengedScore = new.challengedScore,
                             !.challengerCurrentIndex = new.challengerIndex,
                             !.challengedCurrentIndex = new.challengedIndex]
            IN  /\ IF battleComplete
                   THEN /\ guildBattles' = [guildBattles EXCEPT ![b] =
                              [scored EXCEPT !.status = "completed",
                                             !.winnerId = winningGuildId]]
                        /\ guilds' = IF /\ winningGuildId # NoGuildWinner
                                        /\ guilds[winningGuildId].exists
                                     THEN [guilds EXCEPT ![winningGuildId].wins = @ + 1]
                                     ELSE guilds
                   ELSE /\ guildBattles' = [guildBattles EXCEPT ![b] =
                              [scored EXCEPT !.currentRound = battle.currentRound + 1]]
                        /\ UNCHANGED guilds
    /\ UNCHANGED <<accounts, gold, activeSessions, now, ticks, last, aucVars, race,
                   tradeVars, chalVars, sseVars, moreVars, guildMembers>>

\* PATCH /api/admin/guild-battles/:battleId/round-winner
RoundWinner(b, winnerId) ==
    Designate(b, winnerId) /\ UNCHANGED outcomes

\* the same request, the side that won the round written down when it is taken
RecordedRound(b, winnerId) ==
    /\ Designate(b, winnerId)
    /\ outcomes' = IF guildBattles' # guildBattles
                   THEN [outcomes EXCEPT ![b] =
                           Append(@, AfterRound(guildBattles[b], winnerId).side)]
                   ELSE outcomes

\* DELETE /api/admin/guilds/:guildId
DisbandGuild(adminId, g) ==
    /\ IF AdminCheck(adminId) # 0
       THEN UNCHANGED <<guilds, guildMembers, guildInvites>>
       ELSE IF ~guilds[g].exists
       THEN UNCHANGED <<guilds, guildMembers, guildInvites>>
       ELSE /\ guildMembers' = [u \in Users |-> guildMembers[u] \ {g}]
            /\ guildInvites' = {i \in guildInvites : i[1] # g}
            /\ guilds' = [guilds EXCEPT ![g] = NoGuild]
    /\ UNCHANGED <<accounts, gold, activeSessions, now, ticks, last, aucVars, race,
                   tradeVars, chalVars, sseVars, pc, soloVars, guildBattles, outcomes,
                   guildNames, guildBank, dungeon, dungeonReply>>

\* an admin, and two guilds of two players each
InitGuild ==
    /\ accounts = [u \in Users |->
                     IF u = AdminId THEN [role |-> "admin"]
                     ELSE IF u \in Fighters THEN [role |-> "player"]
                     ELSE NoAccount]
    /\ gold = [u \in Users |-> 0]
    /\ activeSessions = [u \in {AdminId, 2} |-> 0]
    /\ now = 0
    /\ ticks = 0
    /\ last = Reply("init", 0, 0, 0)
    /\ auctions = <<>> /\ bids = <<>> /\ playerSkills = <<>> /\ applied = <<>>
    /\ race = RaceIdle
    /\ NoTrades
    /\ NoChallenges
    /\ NoSubscribers
    /\ guilds = [g \in GuildIds |-> [masterId |-> Roster(g)[1], wins |-> 0,
                                     exists |-> TRUE]]
    /\ guildMembers = [u \in Users |->
                         IF u \in {2, 3} THEN {1} ELSE IF u \in {4, 5} THEN {2} ELSE {}]
    /\ guildBattles = <<>> /\ outcomes = <<>>
    /\ NoMore

NextGuild ==
    \/ \E id \in {2, 3, 4}, t \in GuildIds :
          \E f \in Lineups(1) : ChallengeGuild(1, id, t, f)
    \/ \E b \in 1..MaxBattles, id \in {2, 3, 4}, g \in GuildIds :
          \E f \in Lineups(g) : RespondBattle(b, id, TRUE, f)
    \/ \E b \in 1..MaxBattles, id \in {2, 3, 4} : RespondBattle(b, id, FALSE, <<>>)
    \/ \E b \in 1..MaxBattles, w \in Fighters : RoundWinner(b, w)
    \/ \E adminId \in {AdminId, 2}, g \in GuildIds : DisbandGuild(adminId, g)

SpecGuild == InitGuild /\ [][NextGuild]_vars

\* one battle, accepted, with one to four fighters on each side
InitBracket ==
    /\ accounts = [u \in Users |->
                     IF u = AdminId THEN [role |-> "admin"]
                     ELSE IF u \in Fighters THEN [role |-> "player"]
                     ELSE NoAccount]
    /\ gold = [u \in Users |-> 0]
    /\ activeSessions = [u \in {AdminId, 2} |-> 0]
    /\ now = 0
    /\ ticks = 0
    /\ last = Reply("init", 0, 0, 0)
    /\ auctions = <<>> /\ bids = <<>> /\ playerSkills = <<>> /\ applied = <<>>
    /\ race = RaceIdle
    /\ NoTrades
    /\ NoChallenges
    /\ NoSubscribers
    /\ guilds = [g \in GuildIds |-> [masterId |-> Roster(g)[1], wins |-> 0,
                                     exists |-> TRUE]]
    /\ guildMembers = [u \in Users |->
                         IF u \in {2, 3} THEN {1} ELSE IF u \in {4, 5} THEN {2} ELSE {}]
    /\ \E n \in 1..MAX_FIGHTERS, k \in 1..MAX_FIGHTERS :
          guildBattles = <<[challengerGuildId |-> 1, challengedGuildId |-> 2,
                            challengerFighters |-> Lineup(1, n),
                            challengedFighters |-> Lineup(2, k),
                            status |-> "in_progress", currentRound |-> 1,
                            challengerScore |-> 0, challengedScore |-> 0,
                            challengerCurrentIndex |-> 0, challengedCurrentIndex |-> 0,
                            winnerId |-> NoGuildWinner]>>
    /\ outcomes = << <<>> >>
    /\ NoMore

\* the rounds of the battle, one designation after the other
NextBracket == \E w \in Fighters : RecordedRound(1, w)

SpecBracket == InitBracket /\ [][NextBracket]_vars





(***************************************************************************)
(* Event streams.  A subscriber connects with GET /api/admin/events or     *)
(* GET /api/player/events; the response object it gets is its sink, kept   *)
(* in adminSSEConnections or playerSSEConnections under the subscriber's   *)
(* id.  The routes that change a challenge publish to those maps after the *)
(* change and before their reply.  The challenge routes are taken here     *)
(* with their notifications and their reply; the section above takes them  *)
(* with no subscriber connected, where publishing writes nothing.          *)
(***************************************************************************)

\* the accounts with the admin role when events are published
Admins == {AdminId, 5}

\* the player whose challenge is published
Challenger == 2

\* a sink as its connection is set up: the "connected" event is written to it
NewSink(kind, id) ==
    [kind |-> kind, id |-> id, open |-> TRUE, broken |-> FALSE,
     received |-> <<"connected">>]

\* !account || account.role !== role
NotRole(id, role) ==
    accounts[id] = NoAccount \/ accounts[id].role # role

\* connections.delete(id) that removes nobody
UnregisterNobody(map, id) == map

\* connections.delete(id)
Unregister(map, id) == [map EXCEPT ![id] = 0]

\* GET /api/admin/events?adminId=id
SubscribeAdmin(id) ==
    /\ Len(sinks) < MaxSinks
    /\ IF NotRole(id, "admin")
       THEN UNCHANGED <<sinks, adminSSEConnections>>
       ELSE /\ sinks' = Append(sinks, NewSink("admin", id))
            /\ adminSSEConnections' = [adminSSEConnections EXCEPT ![id] = Len(sinks) + 1]
    /\ UNCHANGED <<accounts, gold, activeSessions, now, ticks, last, aucVars, race,
                   tradeVars, chalVars, guildVars, moreVars, playerSSEConnections>>

\* GET /api/player/events?playerId=id
SubscribePlayer(id) ==
    /\ Len(sinks) < MaxSinks
    /\ IF NotRole(id, "player")
       THEN UNCHANGED <<sinks, playerSSEConnections>>
       ELSE /\ sinks' = Append(sinks, NewSink("player", id))
            /\ playerSSEConnections' = [playerSSEConnections EXCEPT ![id] = Len(sinks) + 1]
    /\ UNCHANGED <<accounts, gold, activeSessions, now, ticks, last, aucVars, race,
                   tradeVars, chalVars, guildVars, moreVars, adminSSEConnections>>

\* req.on("close", ...) of the connection that got sink k
Close(k) ==
    /\ k \in DOMAIN sinks
    /\ sinks[k].open
    /\ sinks' = [sinks EXCEPT ![k].open = FALSE]
    /\ IF sinks[k].kind = "admin"
       THEN /\ adminSSEConnections' = Unregister(adminSSEConnections, sinks[k].id)
            /\ UNCHANGED playerSSEConnections
       ELSE /\ playerSSEConnections' = Unregister(playerSSEConnections, sinks[k].id)
            /\ UNCHANGED adminSSEConnections
    /\ UNCHANGED <<accounts, gold, activeSessions, now, ticks, last, aucVars, race,
                   tradeVars, chalVars, guildVars, moreVars>>

\* the socket below sink k fails: from now on res.write on it throws
Break(k) ==
    /\ k \in DOMAIN sinks
    /\ sinks[k].open
    /\ ~sinks[k].broken
    /\ sinks' = [sinks EXCEPT ![k].broken = TRUE]
    /\ UNCHANGED <<accounts, gold, activeSessions, now, ticks, last, aucVars, race,
                   tradeVars, chalVars, guildVars, moreVars, adminSSEConnections,
                   playerSSEConnections>>

\* res.write(message) throws
WriteThrows(sink) == sink.broken

\* a broadcast that keeps the subscribers whose write failed
AfterBroadcastKeepsFailed(map, ss, ids) == map

\* the map after a broadcast to the subscribers ids: try { res.write } catch
\* { connections.delete(id) }, for each of them that is in the map
AfterBroadcast(map, ss, ids) ==
    [u \in Users |->
        IF u \in ids /\ map[u] # 0 /\ WriteThrows(ss[map[u]])
        THEN Unregister(map, u)[u]
        ELSE map[u]]

\* the sinks after that broadcast: the writes that did not throw
Delivered(map, ss, ids, event) ==
    [k \in DOMAIN ss |->
        IF (\E u \in ids : map[u] = k) /\ ~WriteThrows(ss[k])
        THEN [ss[k] EXCEPT !.received = Append(@, event)]
        ELSE ss[k]]

\* PATCH /api/challenges/:id/accept with its notifications and its reply:
\* broadcastToAdmins, then broadcastToPlayer(challenge.challengerId)
AcceptChallengeNotified(c) ==
    /\ IF c \notin DOMAIN challenges
       THEN /\ last' = Reply("acceptChallenge", c, 404, 0)
            /\ UNCHANGED <<challenges, sseVars>>
       ELSE IF NotPending(challenges[c])
       THEN /\ last' = Reply("acceptChallenge", c, 400, 0)
            /\ UNCHANGED <<challenges, sseVars>>
       ELSE /\ challenges' = updateChallengeStatus(c, "accepted")
            /\ adminSSEConnections' = AfterBroadcast(adminSSEConnections, sinks, Users)
            /\ playerSSEConnections' =
                  AfterBroadcast(playerSSEConnections, sinks, {challenges[c].challengerId})
            /\ sinks' = Delivered(playerSSEConnections,
                                  Delivered(adminSSEConnections, sinks, Users,
                                            "challengeAccepted"),
                                  {challenges[c].challengerId}, "challengeAccepted")
            /\ last' = Reply("acceptChallenge", c, 200, 0)
    /\ UNCHANGED <<accounts, gold, activeSessions, now, ticks, aucVars, race,
                   tradeVars, wins, losses, awards, guildVars, moreVars>>

\* PATCH /api/challenges/:id/decline with its notification and its reply:
\* broadcastToPlayer(challenge.challengerId)
DeclineChallengeNotified(c) ==
    /\ IF c \notin DOMAIN challenges
       THEN /\ last' = Reply("declineChallenge", c, 404, 0)
            /\ UNCHANGED <<challenges, sseVars>>
       ELSE IF NotPending(challenges[c])
       THEN /\ last' = Reply("declineChallenge", c, 400, 0)
            /\ UNCHANGED <<challenges, sseVars>>
       ELSE /\ challenges' = updateChallengeStatus(c, "declined")
            /\ playerSSEConnections' =
                  AfterBroadcast(playerSSEConnections, sinks, {challenges[c].challengerId})
            /\ sinks' = Delivered(playerSSEConnections, sinks,
                                  {challenges[c].challengerId}, "challengeDeclined")
            /\ last' = Reply("declineChallenge", c, 200, 0)
            /\ UNCHANGED adminSSEConnections
    /\ UNCHANGED <<accounts, gold, activeSessions, now, ticks, aucVars, race,
                   tradeVars, wins, losses, awards, guildVars, moreVars>>

\* two admins and two players, a pending challenge of player 2 to player 3,
\* nobody connected yet
InitEvents ==
    /\ accounts = [u \in Users |->
                     IF u \in Admins THEN [role |-> "admin"]
                     ELSE IF u \in Players THEN [role |-> "player"]
                     ELSE NoAccount]
    /\ gold = [u \in Users |-> 0]
    /\ activeSessions = [u \in {AdminId, 2} |-> 0]
    /\ now = 0
    /\ ticks = 0
    /\ last = Reply("init", 0, 0, 0)
    /\ auctions = <<>> /\ bids = <<>> /\ playerSkills = <<>> /\ applied = <<>>
    /\ race = RaceIdle
    /\ NoTrades
    /\ challenges = <<[challengerId |-> Challenger, challengedId |-> 3,
                       status |-> "pending", winnerId |-> NoChallengeWinner]>>
    /\ wins = [u \in Users |-> 0]
    /\ losses = [u \in Users |-> 0]
    /\ awards = <<[sets |-> 0, wins |-> 0, losses |-> 0]>>
    /\ NoGuilds
    /\ NoSubscribers
    /\ NoMore

NextEvents ==
    \/ \E id \in Admins \cup {Challenger} : SubscribeAdmin(id)
    \/ \E id \in {Challenger, AdminId} : SubscribePlayer(id)
    \/ \E k \in 1..MaxSinks : Close(k)
    \/ \E k \in 1..MaxSinks : Break(k)
    \/ AcceptChallengeNotified(1)
    \/ DeclineChallengeNotified(1)

SpecEvents == InitEvents /\ [][NextEvents]_vars

(***************************************************************************)
(* The order of storage updates and events.  A route awaits each storage   *)
(* call, so other work runs between its statements.  Three routes that     *)
(* publish are taken here statement by statement, each on an entity its    *)
(* checks let through: accepting challenge 1, designating the winner of    *)
(* the last round of guild battle 1, finalizing auction 1.  pc[h] counts   *)
(* the statements route h has executed.                                    *)
(***************************************************************************)

\* the winner the round-winner request designates
RoundWinnerId == 3

\* a route that publishes before it updates the storage
StatementsBroadcastFirst(h) ==
    IF h = "accept"
    THEN <<"broadcastToAdmins", "broadcastToPlayer", "updateChallengeStatus", "reply">>
    ELSE IF h = "roundWinner"
    THEN <<"broadcastToPlayer", "updateGuildWins", "updateGuildBattle", "reply">>
    ELSE <<"broadcastToAllPlayers", "updateAccountGold", "addPlayerSkill",
           "updateSkillAuction", "reply">>

\* the statements of a route that change storage, sinks or the reply, in the
\* order of the source
Statements(h) ==
    IF h = "accept"
    THEN <<"updateChallengeStatus", "broadcastToAdmins", "broadcastToPlayer", "reply">>
    ELSE IF h = "roundWinner"
    THEN <<"updateGuildWins", "updateGuildBattle", "broadcastToPlayer", "reply">>
    ELSE IF h \in {"loginA", "loginB"}
    THEN <<"getAccountByUsername", "hash", "createAccount", "compare">>
    ELSE IF h \in {"tradeAcceptA", "tradeAcceptB"}
    THEN <<"updateTrade", "updateTrade", "getTradeItems", "updateTrade">>
    ELSE <<"updateAccountGold", "addPlayerSkill", "updateSkillAuction",
           "broadcastToAllPlayers", "reply">>

\* the statement route h executes next, "none" once it has replied
Current(h) ==
    IF pc[h] < Len(Statements(h)) THEN Statements(h)[pc[h] + 1] ELSE "none"

\* broadcastToAdmins(event, data)
broadcastToAdmins(event) ==
    /\ adminSSEConnections' = AfterBroadcast(adminSSEConnections, sinks, Users)
    /\ sinks' = Delivered(adminSSEConnections, sinks, Users, event)
    /\ UNCHANGED playerSSEConnections

\* broadcastToPlayer(id, event, data) for each id of ids; broadcastToAllPlayers
\* when ids is every id
broadcastToPlayers(ids, event) ==
    /\ playerSSEConnections' = AfterBroadcast(playerSSEConnections, sinks, ids)
    /\ sinks' = Delivered(playerSSEConnections, sinks, ids, event)
    /\ UNCHANGED adminSSEConnections

\* one statement of PATCH /api/challenges/1/accept
AcceptStatement ==
    /\ Current("accept") # "none"
    /\ pc["accept"] = 0 => ~NotPending(challenges[1])
    /\ pc' = [pc EXCEPT !["accept"] = @ + 1]
    /\ IF Current("accept") = "updateChallengeStatus"
       THEN /\ challenges' = updateChallengeStatus(1, "accepted")
            /\ UNCHANGED <<sseVars, last>>
       ELSE IF Current("accept") = "broadcastToAdmins"
       THEN /\ broadcastToAdmins("challengeAccepted")
            /\ UNCHANGED <<challenges, last>>
       ELSE IF Current("accept") = "broadcastToPlayer"
       THEN /\ broadcastToPlayers({challenges[1].challengerId}, "challengeAccepted")
            /\ UNCHANGED <<challenges, last>>
       ELSE /\ last' = Reply("acceptChallenge", 1, 200, 0)
            /\ UNCHANGED <<challenges, sseVars>>
    /\ UNCHANGED <<accounts, gold, activeSessions, now, ticks, aucVars, race, tradeVars,
                   wins, losses, awards, guildVars, soloVars, moreGuildVars>>

\* one statement of PATCH /api/admin/guild-battles/1/round-winner, in the
\* branch that completes the battle
RoundWinnerStatement ==
    LET battle == guildBattles[1]
        new == AfterRound(battle, RoundWinnerId)
        winningGuildId == WinningGuild(battle, new.challengerScore, new.challengedScore)
    IN  /\ Current("roundWinner") # "none"
        /\ pc["roundWinner"] = 0 =>
              /\ ~NotInProgress(battle)
              /\ ~NotCurrentFighter(battle, RoundWinnerId)
              /\ \/ OutOfFighters(new.challengerIndex, battle.challengerFighters)
                 \/ OutOfFighters(new.challengedIndex, battle.challengedFighters)
        /\ pc' = [pc EXCEPT !["roundWinner"] = @ + 1]
        /\ IF Current("roundWinner") = "updateGuildWins"
           THEN /\ guilds' = IF /\ winningGuildId # NoGuildWinner
                                /\ guilds[winningGuildId].exists
                             THEN [guilds EXCEPT ![winningGuildId].wins = @ + 1]
                             ELSE guilds
                /\ UNCHANGED <<guildBattles, sseVars, last>>
           ELSE IF Current("roundWinner") = "updateGuildBattle"
           THEN /\ guildBattles' = [guildBattles EXCEPT ![1] =
                      [battle EXCEPT !.status = "completed",
                                     !.winnerId = winningGuildId,
                                     !.challengerScore = new.challengerScore,
                                     !.challengedScore = new.challengedScore,
                                     !.challengerCurrentIndex = new.challengerIndex,
                                     !.challengedCurrentIndex = new.challengedIndex]]
                /\ UNCHANGED <<guilds, sseVars, last>>
           ELSE IF Current("roundWinner") = "broadcastToPlayer"
           THEN /\ broadcastToPlayers(MemberIds(battle.challengerGuildId)
                                      \cup MemberIds(battle.challengedGuildId),
                                      "guildBattleComplete")
                /\ UNCHANGED <<guilds, guildBattles, last>>
           ELSE /\ last' = Reply("roundWinner", 1, 200, 0)
                /\ UNCHANGED <<guilds, guildBattles, sseVars>>
        /\ UNCHANGED <<accounts, gold, activeSessions, now, ticks, aucVars, race,
                       tradeVars, chalVars, guildMembers, outcomes, soloVars, moreGuildVars>>

\* one statement of POST /api/admin/auctions/finalize, in the branch of a
\* highest bid its bidder can pay
FinalizeStatement ==
    LET hb == HighestBid(1)
        w == bids[hb].bidderId
        amount == bids[hb].amount
    IN  /\ Current("finalize") # "none"
        /\ pc["finalize"] = 0 =>
              /\ 1 \in ActiveAuctions(auctions)
              /\ hb # 0
              /\ Affords(w, gold[w], amount)
        /\ pc' = [pc EXCEPT !["finalize"] = @ + 1]
        /\ IF Current("finalize") = "updateAccountGold"
           THEN /\ gold' = [gold EXCEPT ![w] = @ - amount]
                /\ applied' = [applied EXCEPT ![1].debits = @ + 1]
                /\ UNCHANGED <<playerSkills, auctions, sseVars, last>>
           ELSE IF Current("finalize") = "addPlayerSkill"
           THEN /\ playerSkills' = Append(playerSkills,
                      [accountId |-> w, skillId |-> auctions[1].skillId,
                       source |-> "auction"])
                /\ applied' = [applied EXCEPT ![1].grants = @ + 1]
                /\ UNCHANGED <<gold, auctions, sseVars, last>>
           ELSE IF Current("finalize") = "updateSkillAuction"
           THEN /\ auctions' = [auctions EXCEPT ![1].status = "completed",
                                                ![1].winningBidId = hb,
                                                ![1].winnerId = w]
                /\ applied' = [applied EXCEPT ![1].ran = TRUE]
                /\ UNCHANGED <<gold, playerSkills, sseVars, last>>
           ELSE IF Current("finalize") = "broadcastToAllPlayers"
           THEN /\ broadcastToPlayers(Users, "auction_ended")
                /\ UNCHANGED <<gold, playerSkills, auctions, applied, last>>
           ELSE /\ last' = Reply("finalize", 1, 200, 0)
                /\ UNCHANGED <<gold, playerSkills, auctions, applied, sseVars>>
        /\ UNCHANGED <<accounts, activeSessions, now, ticks, bids, race, tradeVars,
                       chalVars, guildVars, soloVars, moreGuildVars>>

\* an admin and the players 2 and 4 connected to their event streams; a
\* pending challenge of player 2, a guild battle of one fighter a side in its
\* round, an active auction with a bid of player 2; the three requests not
\* yet started
InitOrdering ==
    /\ accounts = [u \in Users |->
                     IF u = AdminId THEN [role |-> "admin"]
                     ELSE IF u \in Fighters THEN [role |-> "player"]
                     ELSE NoAccount]
    /\ gold = [u \in Users |-> IF u = 2 THEN 2 ELSE 0]
    /\ activeSessions = [u \in {AdminId, 2} |-> 0]
    /\ now = 0
    /\ ticks = 0
    /\ last = Reply("init", 0, 0, 0)
    /\ auctions = <<[skillId |-> "fireball", status |-> "active",
                     endAt |-> AUCTION_DURATION, winnerId |-> NoWinner,
                     winningBidId |-> 0]>>
    /\ bids = <<[auctionId |-> 1, bidderId |-> 2, amount |-> 2]>>
    /\ playerSkills = <<>>
    /\ applied = <<[ran |-> FALSE, debits |-> 0, grants |-> 0]>>
    /\ race = RaceIdle
    /\ NoTrades
    /\ challenges = <<[challengerId |-> 2, challengedId |-> 3,
                       status |-> "pending", winnerId |-> NoChallengeWinner]>>
    /\ wins = [u \in Users |-> 0]
    /\ losses = [u \in Users |-> 0]
    /\ awards = <<[sets |-> 0, wins |-> 0, losses |-> 0]>>
    /\ guilds = [g \in GuildIds |-> [masterId |-> Roster(g)[1], wins |-> 0,
                                     exists |-> TRUE]]
    /\ guildMembers = [u \in Users |->
                         IF u \in {2, 3} THEN {1} ELSE IF u \in {4, 5} THEN {2} ELSE {}]
    /\ guildBattles = <<[challengerGuildId |-> 1, challengedGuildId |-> 2,
                         challengerFighters |-> Lineup(1, 1),
                         challengedFighters |-> Lineup(2, 1),
                         status |-> "in_progress", currentRound |-> 1,
                         challengerScore |-> 0, challengedScore |-> 0,
                         challengerCurrentIndex |-> 0, challengedCurrentIndex |-> 0,
                         winnerId |-> NoGuildWinner]>>
    /\ outcomes = << <<>> >>
    /\ sinks = <<NewSink("admin", AdminId), NewSink("player", 2), NewSink("player", 4)>>
    /\ adminSSEConnections = [u \in Users |-> IF u = AdminId THEN 1 ELSE 0]
    /\ playerSSEConnections = [u \in Users |-> IF u = 2 THEN 2 ELSE IF u = 4 THEN 3 ELSE 0]
    /\ NoMore

NextOrdering ==
    \/ AcceptStatement
    \/ RoundWinnerStatement
    \/ FinalizeStatement
    \/ \E k \in 1..MaxSinks : Break(k)
    \/ \E k \in 1..MaxSinks : Close(k)

SpecOrdering == InitOrdering /\ [][NextOrdering]_vars

(***************************************************************************)
(* Solo NPC battles and player strength.  The stats are JavaScript         *)
(* numbers; the NPC power grows by a factor of 100 a floor and leaves the  *)
(* integers of the model after floor 2.  A number is therefore kept as     *)
(* [hi, lo], standing for hi * 10^120 + lo: the power of the last NPC,     *)
(* floor 50 level 100, is below 10^102, so one unit of hi exceeds every    *)
(* NPC power, and every lo of the model stays below the power of floor 3.  *)
(* The luck roll Math.random() is roll / Rolls.                            *)
(***************************************************************************)

\* the number 10^120
Titanic == [hi |-> 1, lo |-> 0]

Plus(a, b) == [hi |-> a.hi + b.hi, lo |-> a.lo + b.lo]

\* playerRanks, lowest first
playerRanks ==
    <<"Novice", "Apprentice", "Journeyman", "Expert", "Master", "Grandmaster",
      "Legend", "Elite">>

\* array.indexOf(x): 0-based, -1 when absent
indexOf(array, x) ==
    IF \E i \in DOMAIN array : array[i] = x
    THEN (CHOOSE i \in DOMAIN array :
             array[i] = x /\ \A j \in DOMAIN array : array[j] = x => i <= j) - 1
    ELSE -1

allElements ==
    <<"Fire", "Water", "Earth", "Air", "Lightning", "Ice", "Nature", "Dark", "Light",
      "Arcana", "Chrono", "Plasma", "Void", "Aether", "Hybrid",
      "Elemental Convergence", "Time", "Space">>

\* the highest floor and the highest level of a floor
MaxFloor == 50

MaxLevel == 100

\* (floor - 1) * 100 + level
GlobalLevel(floor, level) == (floor - 1) * MaxLevel + level

\* a number of immunities that keeps growing with the floor
numImmunitiesUncapped(floor) == floor \div 5 + 1

\* Math.min(Math.floor(floor / 5) + 1, 5)
numImmunities(floor) ==
    IF floor \div 5 + 1 < 5 THEN floor \div 5 + 1 ELSE 5

\* array.splice(index, 1), index 0-based
Splice(array, index) ==
    [i \in 1..(Len(array) - 1) |-> IF i <= index THEN array[i] ELSE array[i + 1]]

\* the selection loop of getNpcImmuneElements from iteration i on
RECURSIVE Select(_, _, _, _, _, _)
Select(i, n, seed, globalLevel, available, selected) ==
    IF i >= n \/ Len(available) = 0
    THEN selected
    ELSE LET index == ((seed * (i + 1) * 13) + (globalLevel * 17)) % Len(available)
         IN  Select(i + 1, n, seed, globalLevel, Splice(available, index),
                    Append(selected, available[index + 1]))

getNpcImmuneElements(globalLevel) ==
    IF globalLevel < 101
    THEN <<>>
    ELSE LET floor == (globalLevel - 1) \div 100 + 1
             seed == globalLevel * 31 + floor * 7
         IN  Select(0, numImmunities(floor), seed, globalLevel, allElements, <<>>)

\* the floors whose NPC power is computed in the integers of the model
ExactFloors == 2

\* getNpcPowerRange(floor), floors 1 and 2
getNpcPowerRange(floor) ==
    IF floor = 1 THEN [min |-> 1, max |-> 999] ELSE [min |-> 999, max |-> 99999]

\* getNpcPower(floor, level), floors 1 and 2: Math.floor(min + (max - min) *
\* ((level - 1) / 99)) in doubles, where on floor 2 the product of levels 28,
\* 55 and 60 falls just below the integer
getNpcPower(floor, level) ==
    LET range == getNpcPowerRange(floor)
        exact == range.min + ((range.max - range.min) * (level - 1)) \div 99
    IN  IF floor = 2 /\ level \in {28, 55, 60} THEN exact - 1 ELSE exact

\* a rank table that asks for no rank up to global level 200
getNpcRankRequirementFrom200(globalLevel) ==
    IF globalLevel <= 200 THEN "none"
    ELSE IF globalLevel <= 500 THEN "Journeyman"
    ELSE IF globalLevel <= 1000 THEN "Expert"
    ELSE IF globalLevel <= 2000 THEN "Master"
    ELSE IF globalLevel <= 3000 THEN "Grandmaster"
    ELSE IF globalLevel <= 4000 THEN "Legend"
    ELSE "Elite"

\* getNpcRankRequirement(globalLevel), "none" for null
getNpcRankRequirement(globalLevel) ==
    IF globalLevel <= 100 THEN "none"
    ELSE IF globalLevel <= 200 THEN "Apprentice"
    ELSE IF globalLevel <= 500 THEN "Journeyman"
    ELSE IF globalLevel <= 1000 THEN "Expert"
    ELSE IF globalLevel <= 2000 THEN "Master"
    ELSE IF globalLevel <= 3000 THEN "Grandmaster"
    ELSE IF globalLevel <= 4000 THEN "Legend"
    ELSE "Elite"

\* playerRankIndex < requiredRankIndex
RankTooLow(rank, requiredRank) ==
    indexOf(playerRanks, rank) < indexOf(playerRanks, requiredRank)

\* the inventory rows' stats; a row holds the fields its item has
ItemStats(i) ==
    IF i = 1 THEN [Str |-> 5, Spd |-> 2]
    ELSE IF i = 2 THEN [Int |-> 3, Luck |-> 1, Pot |-> 4]
    ELSE [Str |-> 7]

\* stats.F || 0
StatOr0(stats, f) == IF f \in DOMAIN stats THEN stats[f] ELSE 0

\* an item counted by its Str alone
ItemSumStrOnly(i) == StatOr0(ItemStats(i), "Str")

\* the five stat fields of an inventory row, missing = 0
ItemSum(i) ==
    StatOr0(ItemStats(i), "Str") + StatOr0(ItemStats(i), "Int")
    + StatOr0(ItemStats(i), "Spd") + StatOr0(ItemStats(i), "Luck")
    + StatOr0(ItemStats(i), "Pot")

Slots == <<"weapon", "armor", "accessory1", "accessory2">>

\* inventory.find(i => i.id === inventoryId), in the account's own inventory
FoundItem(accountId, inventoryId) ==
    inventoryId # 0 /\ inventoryId \in DOMAIN inventory /\ inventory[inventoryId] = accountId

\* the loop over the slots from slot k on: the stats of the equipped rows
RECURSIVE EquippedSum(_, _, _)
EquippedSum(accountId, equipped, k) ==
    IF k > Len(Slots) THEN 0
    ELSE (IF FoundItem(accountId, equipped[Slots[k]])
          THEN ItemSum(equipped[Slots[k]]) ELSE 0)
         + EquippedSum(accountId, equipped, k + 1)

\* playerStats.Str + playerStats.Spd + playerStats.Int + playerStats.Luck +
\* playerStats.Pot
StatSum(stats) ==
    Plus(stats.Str, N(stats.Spd + stats.Int + stats.Luck + stats.Pot))

\* storage.getPet(equippedPetId) when the account has one and it exists
HasPet(profile) ==
    profile.equippedPetId # 0 /\ pets[profile.equippedPetId] # NoPet

\* calculatePlayerStrength(accountId)
calculatePlayerStrength(accountId) ==
    IF accounts[accountId] = NoAccount THEN N(0)
    ELSE LET profile == profiles[accountId]
             petStats == pets[profile.equippedPetId].stats
         IN  Plus(StatSum(profile.stats),
                  N(EquippedSum(accountId, profile.equipped, 1)
                    + (IF HasPet(profile)
                       THEN petStats.Str + petStats.Spd + petStats.Luck
                            + StatOr0(petStats, "ElementalPower")
                       ELSE 0)))

\* equippedPet.elements if it has any, else [equippedPet.element]
PetElements(pet) ==
    IF Len(pet.elements) > 0 THEN pet.elements ELSE <<pet.element>>

\* petElements.some(elem => npcImmunities.includes(elem))
IsElementImmune(profile, npcImmunities) ==
    /\ HasPet(profile)
    /\ \E i \in DOMAIN PetElements(pets[profile.equippedPetId]) :
          \E j \in DOMAIN npcImmunities :
             PetElements(pets[profile.equippedPetId])[i] = npcImmunities[j]

\* playerPower of the battle route: as the strength, the pet's elemental
\* power left out when the NPC is immune to one of its elements
PlayerPower(accountId, npcImmunities) ==
    LET profile == profiles[accountId]
        petStats == pets[profile.equippedPetId].stats
    IN  Plus(StatSum(profile.stats),
             N(EquippedSum(accountId, profile.equipped, 1)
               + (IF HasPet(profile)
                  THEN petStats.Str + petStats.Spd + petStats.Luck
                       + (IF IsElementImmune(profile, npcImmunities) THEN 0
                          ELSE StatOr0(petStats, "ElementalPower"))
                  ELSE 0)))

\* the values of Math.random() are roll / Rolls, roll in 0..Rolls-1
Rolls == 4

\* a comparison that takes an equal power for a loss
WonStrict(power, luck, roll, floor, level) ==
    IF power.hi > 0 THEN TRUE
    ELSE IF floor > ExactFloors THEN FALSE
    ELSE 5 * power.lo * (100 * Rolls + roll * luck)
         > (IF level = MaxLevel THEN 6 ELSE 5) * getNpcPower(floor, level) * 100 * Rolls

\* effectivePlayerPower >= effectiveNpcPower, where effectivePlayerPower is
\* playerPower * (1 + random * Luck / 100) and effectiveNpcPower is npcPower,
\* times 1.2 for a boss; both sides multiplied by 5 * 100 * Rolls
Won(power, luck, roll, floor, level) ==
    IF power.hi > 0 THEN TRUE
    ELSE IF floor > ExactFloors THEN FALSE
    ELSE 5 * power.lo * (100 * Rolls + roll * luck)
         >= (IF level = MaxLevel THEN 6 ELSE 5) * getNpcPower(floor, level) * 100 * Rolls

\* the rewards of a win at this NPC
Rewards(floor, level) ==
    [gold |-> GlobalLevel(floor, level) * 50,
     trainingPoints |-> GlobalLevel(floor, level) * 10,
     soulShards |-> GlobalLevel(floor, level) * 2,
     petExp |-> GlobalLevel(floor, level) * 100,
     runes |-> IF level = MaxLevel THEN floor * 10 ELSE 0]

\* a progression that goes on to the next floor after any boss
AdvanceUncapped(floor, level) ==
    IF level >= MaxLevel THEN [floor |-> floor + 1, level |-> 1]
    ELSE [floor |-> floor, level |-> level + 1]

\* newFloor and newLevel after a win
Advance(floor, level) ==
    IF level >= MaxLevel
    THEN IF floor < MaxFloor THEN [floor |-> floor + 1, level |-> 1]
         ELSE [floor |-> floor, level |-> level]
    ELSE [floor |-> floor, level |-> level + 1]

\* x || 1
Or1(x) == IF x = 0 THEN 1 ELSE x

\* POST /api/accounts/:accountId/npc-battle, Math.random() giving roll / Rolls
NpcBattle(accountId, roll) ==
    /\ fought < MaxFights
    /\ fought' = fought + 1
    /\ IF accounts[accountId] = NoAccount \/ accounts[accountId].role # "player"
       THEN /\ last' = Reply("npcBattle", accountId, 404, 0)
            /\ UNCHANGED <<gold, profiles, pets, result, sseVars>>
       ELSE LET profile == profiles[accountId]
                floor == Or1(profile.npcFloor)
                level == Or1(profile.npcLevel)
                globalLevel == GlobalLevel(floor, level)
                npcImmunities == getNpcImmuneElements(globalLevel)
                requiredRank == getNpcRankRequirement(globalLevel)
                playerPower == PlayerPower(accountId, npcImmunities)
                won == Won(playerPower, profile.stats.Luck, roll, floor, level)
                rewards == IF won THEN Rewards(floor, level) ELSE NoRewards
                new == IF won THEN Advance(floor, level)
                       ELSE [floor |-> floor, level |-> level]
            IN  IF requiredRank # "none" /\ RankTooLow(profile.rank, requiredRank)
                THEN /\ last' = Reply("npcBattle", accountId, 403, 0)
                     /\ UNCHANGED <<gold, profiles, pets, result, sseVars>>
                ELSE /\ IF won
                        THEN /\ gold' = [gold EXCEPT ![accountId] = @ + rewards.gold]
                             /\ profiles' = [profiles EXCEPT
                                   ![accountId].trainingPoints = @ + rewards.trainingPoints,
                                   ![accountId].soulShards = @ + rewards.soulShards,
                                   ![accountId].runes = @ + rewards.runes,
                                   ![accountId].npcFloor = new.floor,
                                   ![accountId].npcLevel = new.level]
                             /\ pets' = IF HasPet(profile) /\ rewards.petExp > 0
                                        THEN [pets EXCEPT ![profile.equippedPetId].exp =
                                                 @ + rewards.petExp]
                                        ELSE pets
                        ELSE UNCHANGED <<gold, profiles, pets>>
                     /\ result' = [accountId |-> accountId, floor |-> floor,
                                   level |-> level, roll |-> roll, won |-> won,
                                   rewards |-> rewards, npcImmunities |-> npcImmunities,
                                   petElementImmune |->
                                       IsElementImmune(profile, npcImmunities)]
                     /\ broadcastToAdmins("npcBattle")
                     /\ last' = Reply("npcBattle", accountId, 200, IF won THEN 1 ELSE 0)
    /\ UNCHANGED <<accounts, activeSessions, now, ticks, aucVars, race, tradeVars,
                   chalVars, guildVars, pc, npc, moreGuildVars>>

\* PATCH /api/accounts/:id with an equipped map that differs from the stored
\* one in one slot: inventoryId put there, or 0 to empty it
PatchEquipped(id, slot, inventoryId) ==
    /\ IF accounts[id] = NoAccount
       THEN UNCHANGED profiles
       ELSE profiles' = [profiles EXCEPT ![id].equipped[slot] = inventoryId]
    /\ UNCHANGED <<accounts, gold, activeSessions, now, ticks, last, aucVars, race,
                   tradeVars, chalVars, guildVars, sseVars, pc, pets, result, fought,
                   npc, moreGuildVars>>

\* POST /api/accounts/:accountId/equip-pet; petId 0 for none
EquipPet(accountId, petId) ==
    /\ IF accounts[accountId] = NoAccount
       THEN UNCHANGED profiles
       ELSE IF petId # 0 /\ (pets[petId] = NoPet \/ pets[petId].accountId # accountId)
       THEN UNCHANGED profiles
       ELSE profiles' = [profiles EXCEPT ![accountId].equippedPetId = petId]
    /\ UNCHANGED <<accounts, gold, activeSessions, now, ticks, last, aucVars, race,
                   tradeVars, chalVars, guildVars, sseVars, pc, pets, result, fought,
                   npc, moreGuildVars>>

\* GET /api/npc/:floor/:level: the level and the immunities of its reply
GetNpc(floor, level) ==
    /\ IF floor < 1 \/ floor > MaxFloor \/ level < 1 \/ level > MaxLevel
       THEN npc' = [NoNpc EXCEPT !.status = 400]
       ELSE npc' = [status |-> 200, floor |-> floor, level |-> level,
                    globalLevel |-> GlobalLevel(floor, level),
                    immuneElements |->
                        getNpcImmuneElements(GlobalLevel(floor, level))]
    /\ UNCHANGED <<accounts, gold, activeSessions, now, ticks, last, aucVars, race,
                   tradeVars, chalVars, guildVars, sseVars, pc, profiles, pets, result,
                   fought, moreGuildVars>>

\* pet 1 of player 2 is of the element the NPC of global level 101 is immune
\* to, pet 2 of player 2 has its legacy element only, pet 3 is player 3's
InitPets ==
    pets = [p \in PetIds |->
              IF p = 1
              THEN [accountId |-> 2, element |-> "Fire", elements |-> <<"Water", "Hybrid">>,
                    stats |-> [Str |-> 0, Spd |-> 0, Luck |-> 0, ElementalPower |-> 100],
                    exp |-> 0]
              ELSE IF p = 2
              THEN [accountId |-> 2, element |-> "Fire", elements |-> <<>>,
                    stats |-> [Str |-> 0, Spd |-> 0, Luck |-> 0, ElementalPower |-> 100],
                    exp |-> 0]
              ELSE [accountId |-> 3, element |-> "Ice", elements |-> <<"Ice">>,
                    stats |-> [Str |-> 1, Spd |-> 2, Luck |-> 3],
                    exp |-> 0]]

\* the accounts of the battles: an admin and the players 2 and 3
SoloAccounts ==
    /\ accounts = [u \in Users |->
                     IF u = AdminId THEN [role |-> "admin"]
                     ELSE IF u \in Players THEN [role |-> "player"]
                     ELSE NoAccount]
    /\ gold = [u \in Users |-> 0]
    /\ activeSessions = [u \in {AdminId, 2} |-> 0]
    /\ now = 0
    /\ ticks = 0
    /\ last = Reply("init", 0, 0, 0)
    /\ auctions = <<>> /\ bids = <<>> /\ playerSkills = <<>> /\ applied = <<>>
    /\ race = RaceIdle
    /\ trades = <<>> /\ tradeItems = <<>> /\ executions = <<>> /\ acceptance = <<>>
    /\ inventory = <<2, 2, 3>>
    /\ NoChallenges /\ NoGuilds /\ NoSubscribers
    /\ pc = [h \in Handlers |-> 0]
    /\ NoMoreGuild

\* player 2 with two rows in the inventory and two pets, nothing equipped
InitStrength ==
    /\ SoloAccounts
    /\ profiles = [u \in Users |-> NoProfile]
    /\ InitPets
    /\ result = NoResult /\ fought = 0 /\ npc = NoNpc

NextStrength ==
    \/ \E id \in {2, UnknownId}, k \in DOMAIN Slots, i \in 0..3 :
          PatchEquipped(id, Slots[k], i)
    \/ \E id \in {2, UnknownId}, p \in {0} \cup PetIds : EquipPet(id, p)

SpecStrength == InitStrength /\ [][NextStrength]_vars

\* the stats of player 2 in the battles
StatChoices ==
    {[Str |-> N(0), Spd |-> 0, Int |-> 0, Luck |-> 0, Pot |-> 0],
     [Str |-> N(1), Spd |-> 0, Int |-> 0, Luck |-> 0, Pot |-> 0],
     [Str |-> N(950), Spd |-> 0, Int |-> 0, Luck |-> 0, Pot |-> 0],
     [Str |-> N(990), Spd |-> 0, Int |-> 0, Luck |-> 50, Pot |-> 0],
     [Str |-> Titanic, Spd |-> 0, Int |-> 0, Luck |-> 10, Pot |-> 0]}

\* the NPCs player 2 stands before: the first, the ends of floors, the global
\* levels around the rank thresholds, the last
Standings ==
    {<<1, 1>>, <<1, 99>>, <<1, 100>>, <<2, 1>>, <<2, 100>>, <<3, 1>>, <<5, 100>>,
     <<6, 1>>, <<10, 100>>, <<11, 1>>, <<20, 100>>, <<21, 1>>, <<30, 100>>,
     <<31, 1>>, <<40, 100>>, <<41, 1>>, <<49, 100>>, <<50, 99>>, <<50, 100>>}

\* player 2 somewhere on the way up, of any rank, with one of the stats, with
\* or without a pet; player 3 as created
InitSolo ==
    /\ SoloAccounts
    /\ InitPets
    /\ \E at \in Standings, r \in DOMAIN playerRanks, stats \in StatChoices,
          p \in {0, 1, 2} :
          profiles = [u \in Users |->
                        IF u = 2
                        THEN [NoProfile EXCEPT !.npcFloor = at[1], !.npcLevel = at[2],
                                               !.rank = playerRanks[r],
                                               !.stats = stats,
                                               !.equippedPetId = p]
                        ELSE NoProfile]
    /\ result = NoResult /\ fought = 0 /\ npc = NoNpc

NextSolo ==
    \E id \in {2, AdminId}, roll \in 0..(Rolls - 1) : NpcBattle(id, roll)

SpecSolo == InitSolo /\ [][NextSolo]_vars

InitNpc ==
    /\ SoloAccounts
    /\ NoSolo

\* the floors and the levels asked for: the ends, and the floors where the
\* number of immunities changes
FloorsAsked == {0, 1, 2, 3, 4, 5, 9, 10, 14, 15, 19, 20, 24, 25, 30, 49, 50, 51}

LevelsAsked == {0, 1, 2, 3, 50, 98, 99, 100, 101}

NextNpc ==
    \E floor \in FloorsAsked, level \in LevelsAsked : GetNpc(floor, level)

SpecNpc == InitNpc /\ [][NextNpc]_vars

(***************************************************************************)
(* Guild membership.  The requests are served one after the other.         *)
(***************************************************************************)

MAX_GUILD_MEMBERS == 4

\* storage.getGuildMember(accountId): the account has a membership row
InGuild(accountId) == guildMembers[accountId] # {}

\* storage.getGuildByName(name)
NameTaken(name) == \E g \in GuildIds : guilds[g].exists /\ guildNames[g] = name

\* the id storage.createGuild gives the next guild: one never given before
NextGuildId == CHOOSE g \in GuildIds :
                  guildNames[g] = "" /\ \A h \in GuildIds : guildNames[h] = "" => g <= h

\* a guild that takes members until it has one more than the maximum
GuildFullAbove(g) == Cardinality(MemberIds(g)) > MAX_GUILD_MEMBERS

\* members.length >= MAX_GUILD_MEMBERS
GuildFull(g) == Cardinality(MemberIds(g)) >= MAX_GUILD_MEMBERS

\* storage.addGuildMember({guildId, accountId})
addGuildMember(g, accountId) ==
    [guildMembers EXCEPT ![accountId] = @ \cup {g}]

\* storage.removeGuildMember(accountId) for each account of ids
removeGuildMember(ids) ==
    [u \in Users |-> IF u \in ids THEN {} ELSE guildMembers[u]]

\* POST /api/guilds
CreateGuild(name, masterId) ==
    /\ \E g \in GuildIds : guildNames[g] = ""
    /\ IF InGuild(masterId) \/ NameTaken(name)
       THEN UNCHANGED <<guilds, guildMembers, guildNames>>
       ELSE /\ guilds' = [guilds EXCEPT ![NextGuildId] =
                            [masterId |-> masterId, wins |-> 0, exists |-> TRUE]]
            /\ guildNames' = [guildNames EXCEPT ![NextGuildId] = name]
            /\ guildMembers' = addGuildMember(NextGuildId, masterId)
    /\ UNCHANGED <<accounts, gold, activeSessions, now, ticks, last, aucVars, race,
                   tradeVars, chalVars, sseVars, pc, soloVars, guildBattles, outcomes,
                   guildInvites, guildBank, dungeon, dungeonReply>>

\* POST /api/guilds/:guildId/invite
InvitePlayer(g, accountId, invitedBy) ==
    /\ Cardinality(guildInvites) < MaxInvites
    /\ IF \/ ~guilds[g].exists
          \/ guilds[g].masterId # invitedBy
          \/ GuildFull(g)
          \/ InGuild(accountId)
          \/ <<g, accountId>> \in guildInvites
       THEN UNCHANGED <<guildInvites, sseVars>>
       ELSE /\ guildInvites' = guildInvites \cup {<<g, accountId>>}
            /\ broadcastToPlayers({accountId}, "guildInvite")
    /\ UNCHANGED <<accounts, gold, activeSessions, now, ticks, last, aucVars, race,
                   tradeVars, chalVars, guildVars, pc, soloVars, guildNames, guildBank,
                   dungeon, dungeonReply>>

\* POST /api/guild-invites/:inviteId/accept
AcceptInvite(invite) ==
    /\ IF invite \notin guildInvites \/ ~guilds[invite[1]].exists \/ GuildFull(invite[1])
       THEN UNCHANGED <<guildMembers, guildInvites>>
       ELSE IF InGuild(invite[2])
       THEN /\ guildInvites' = guildInvites \ {invite}
            /\ UNCHANGED guildMembers
       ELSE /\ guildMembers' = addGuildMember(invite[1], invite[2])
            /\ guildInvites' = {i \in guildInvites : i[2] # invite[2]}
    /\ UNCHANGED <<accounts, gold, activeSessions, now, ticks, last, aucVars, race,
                   tradeVars, chalVars, sseVars, pc, soloVars, guilds, guildBattles,
                   outcomes, guildNames, guildBank, dungeon, dungeonReply>>

\* POST /api/guild-invites/:inviteId/decline
DeclineInvite(invite) ==
    /\ guildInvites' = guildInvites \ {invite}
    /\ UNCHANGED <<accounts, gold, activeSessions, now, ticks, last, aucVars, race,
                   tradeVars, chalVars, guildVars, sseVars, pc, soloVars, guildNames,
                   guildBank, dungeon, dungeonReply>>

\* POST /api/guilds/:guildId/leave
LeaveGuild(g, accountId) ==
    /\ IF ~guilds[g].exists
       THEN UNCHANGED <<guilds, guildMembers>>
       ELSE IF guilds[g].masterId = accountId
       THEN /\ guildMembers' = removeGuildMember(MemberIds(g))
            /\ guilds' = [guilds EXCEPT ![g] = NoGuild]
       ELSE /\ guildMembers' = removeGuildMember({accountId})
            /\ UNCHANGED guilds
    /\ UNCHANGED <<accounts, gold, activeSessions, now, ticks, last, aucVars, race,
                   tradeVars, chalVars, sseVars, pc, soloVars, guildBattles, outcomes,
                   moreGuildVars>>

\* POST /api/guilds/:guildId/kick
KickMember(g, accountId, masterId) ==
    /\ IF ~guilds[g].exists \/ guilds[g].masterId # masterId \/ accountId = masterId
       THEN UNCHANGED <<guildMembers, sseVars>>
       ELSE /\ guildMembers' = removeGuildMember({accountId})
            /\ broadcastToPlayers({accountId}, "guildKicked")
    /\ UNCHANGED <<accounts, gold, activeSessions, now, ticks, last, aucVars, race,
                   tradeVars, chalVars, pc, soloVars, guilds, guildBattles, outcomes,
                   moreGuildVars>>

\* the accounts that found guilds
Founders == {2, 3}

\* the accounts the requests are about
Candidates == {1, 2, 3, 4, 5}

\* the accounts that send invitations
Inviters == {2, 3}

\* an admin and the players; player 3 has founded guild 2 and is its only
\* member, guild id 1 has not been given yet
InitMembership ==
    /\ accounts = [u \in Users |->
                     IF u = AdminId THEN [role |-> "admin"] ELSE [role |-> "player"]]
    /\ gold = [u \in Users |-> 0]
    /\ activeSessions = [u \in {AdminId, 2} |-> 0]
    /\ now = 0
    /\ ticks = 0
    /\ last = Reply("init", 0, 0, 0)
    /\ auctions = <<>> /\ bids = <<>> /\ playerSkills = <<>> /\ applied = <<>>
    /\ race = RaceIdle
    /\ NoTrades
    /\ NoChallenges /\ NoSubscribers
    /\ pc = [h \in Handlers |-> 0]
    /\ NoSolo
    /\ guilds = [g \in GuildIds |->
                   IF g = 2 THEN [masterId |-> 3, wins |-> 0, exists |-> TRUE]
                   ELSE NoGuild]
    /\ guildMembers = [u \in Users |-> IF u = 3 THEN {2} ELSE {}]
    /\ guildBattles = <<>> /\ outcomes = <<>>
    /\ NoMoreGuild

NextMembership ==
    \/ \E k \in DOMAIN Names, masterId \in Founders : CreateGuild(Names[k], masterId)
    \/ \E g \in GuildIds, accountId \in Candidates, invitedBy \in Inviters :
          InvitePlayer(g, accountId, invitedBy)
    \/ \E g \in GuildIds, accountId \in Candidates : AcceptInvite(<<g, accountId>>)
    \/ \E g \in GuildIds, accountId \in Candidates : DeclineInvite(<<g, accountId>>)
    \/ \E g \in GuildIds, accountId \in Candidates : LeaveGuild(g, accountId)
    \/ \E g \in GuildIds, accountId \in Candidates, masterId \in Founders :
          KickMember(g, accountId, masterId)
    \/ \E adminId \in {AdminId, 2}, g \in GuildIds : DisbandGuild(adminId, g)

SpecMembership == InitMembership /\ [][NextMembership]_vars

(***************************************************************************)
(* The guild dungeon.  Powers are kept in quarters, playerPower4 being     *)
(* four times the playerPower of the route, so that the element bonus of   *)
(* 1.25 stays in the integers.                                             *)
(***************************************************************************)

\* floor > 50
IsDemonLordDungeon(floor) == floor > 50

\* level % 10 === 0
IsDungeonBoss(level) == level % 10 = 0

\* npcStats of the fight: the base stats times the strength multiplier, for
\* a boss times 2 (Str) or 1.5 (Spd, Int) and times 1 + (floor - 1) * 0.5
DungeonNpcStats(floor, level) ==
    LET globalLevel == (floor - 1) * 100 + level
        strengthMultiplier == IF IsDemonLordDungeon(floor) THEN 15 ELSE 10
        baseStr == (10 + globalLevel * 5) * strengthMultiplier
        baseSpd == (10 + globalLevel * 4) * strengthMultiplier
        baseInt == (10 + globalLevel * 3) * strengthMultiplier
    IN  IF IsDungeonBoss(level)
        THEN [Str |-> baseStr * (floor + 1),
              Spd |-> (baseSpd * 3 * (floor + 1)) \div 4,
              Int |-> (baseInt * 3 * (floor + 1)) \div 4]
        ELSE [Str |-> baseStr, Spd |-> baseSpd, Int |-> baseInt]

\* npcStats.Str * 2 + npcStats.Spd + npcStats.Int
DungeonNpcPower(floor, level) ==
    DungeonNpcStats(floor, level).Str * 2 + DungeonNpcStats(floor, level).Spd
    + DungeonNpcStats(floor, level).Int

\* members.filter(m => activeSessions.has(m.accountId))
OnlineMembers(g) == MemberIds(g) \cap DOMAIN activeSessions

\* the sum of f over the accounts of S
RECURSIVE Combined(_, _)
Combined(S, f) ==
    IF S = {} THEN N(0)
    ELSE LET u == CHOOSE u \in S : TRUE
         IN  Plus(IF f = "Str" THEN profiles[u].stats.Str ELSE N(profiles[u].stats[f]),
                  Combined(S \ {u}, f))

\* combinedPetPower: the equipped pets of the accounts of S
RECURSIVE CombinedPetPower(_)
CombinedPetPower(S) ==
    IF S = {} THEN 0
    ELSE LET u == CHOOSE u \in S : TRUE
             petStats == pets[profiles[u].equippedPetId].stats
         IN  (IF HasPet(profiles[u])
              THEN petStats.Str + petStats.Spd + petStats.Luck
                   + StatOr0(petStats, "ElementalPower")
              ELSE 0)
             + CombinedPetPower(S \ {u})

\* combinedElements: the elements arrays of those pets
CombinedElements(S) ==
    UNION {IF HasPet(profiles[u])
           THEN {pets[profiles[u].equippedPetId].elements[i] :
                    i \in DOMAIN pets[profiles[u].equippedPetId].elements}
           ELSE {} : u \in S}

\* four times playerPower; effective: one of the combined elements is not
\* among the immunities
PlayerPower4(g, floor, effective) ==
    LET online == OnlineMembers(g)
        combinedStr == Combined(online, "Str")
        basePower == Plus(Plus(combinedStr, combinedStr),
                          Plus(Combined(online, "Spd"), Combined(online, "Int")))
        petPower == IF IsDemonLordDungeon(floor) THEN CombinedPetPower(online) ELSE 0
        bonus4 == IF effective THEN 5 ELSE 4
    IN  [hi |-> basePower.hi * bonus4, lo |-> (basePower.lo + petPower) * bonus4]

\* powerRatio < 0.4
TooWeak(playerPower4, npcPower) ==
    playerPower4.hi = 0 /\ playerPower4.lo * 5 < 8 * npcPower

\* playerPower * roll > npcPower * 0.8, roll being Math.random() * (1 +
\* Luck * 0.01) and Math.random() being random / Rolls
Victory(playerPower4, luck, random, npcPower) ==
    IF playerPower4.hi > 0 \/ luck.hi > 0 THEN random > 0
    ELSE playerPower4.lo * random * (100 + luck.lo) * 5 > npcPower * 1600 * Rolls

\* the rewards of a victory
DungeonRewards(floor, level) ==
    LET globalLevel == (floor - 1) * 100 + level
        rewardMultiplier == IF IsDemonLordDungeon(floor) THEN 3 ELSE 1
        baseGold == (100 + globalLevel * 50) * 10 * rewardMultiplier
    IN  [gold |-> IF IsDungeonBoss(level) THEN baseGold * 5 ELSE baseGold,
         rubies |-> IF IsDungeonBoss(level)
                    THEN (level \div 2) * 10 * rewardMultiplier ELSE 0,
         soulShards |-> IF floor >= 10 THEN (floor \div 5) * 10 * rewardMultiplier ELSE 0,
         focusedShards |-> IF floor >= 25
                           THEN ((floor - 20) \div 5) * 10 * rewardMultiplier ELSE 0,
         runes |-> IF floor >= 15 THEN (floor \div 10) * 10 * rewardMultiplier ELSE 0,
         trainingPoints |-> IF floor >= 5
                            THEN (floor \div 3) * 5 * rewardMultiplier ELSE 0]

\* a bank that takes the gold alone
newBankGoldOnly(bank, rewards) ==
    [bank EXCEPT !.gold = @ + rewards.gold]

\* newBank
newBank(bank, rewards) ==
    [gold |-> bank.gold + rewards.gold,
     rubies |-> bank.rubies + rewards.rubies,
     soulShards |-> bank.soulShards + rewards.soulShards,
     focusedShards |-> bank.focusedShards + rewards.focusedShards,
     runes |-> bank.runes + rewards.runes,
     trainingPoints |-> bank.trainingPoints + rewards.trainingPoints]

\* newFloor and newLevel after a victory
DungeonAdvance(floor, level) ==
    IF level + 1 > 50
    THEN [floor |-> IF floor + 1 < 100 THEN floor + 1 ELSE 100, level |-> 1]
    ELSE [floor |-> floor, level |-> level + 1]

DungeonAnswer(status, g, accountId, refused, victory, rewards) ==
    [status |-> status, guildId |-> g, accountId |-> accountId, refused |-> refused,
     victory |-> victory, rewards |-> rewards]

\* POST /api/guilds/:guildId/dungeon/fight, Math.random() giving random /
\* Rolls.  The immunities are drawn from petElements of @shared/schema in an
\* order this source does not fix: where the pets of the online members
\* bring elements, effective says whether one of them escapes the immunities
DungeonFight(g, accountId, random, effective) ==
    /\ fought < MaxFights
    /\ fought' = fought + 1
    /\ IF g \notin guildMembers[accountId]
       THEN /\ dungeonReply' = DungeonAnswer(403, g, accountId, FALSE, FALSE, NoBank)
            /\ UNCHANGED <<guildBank, dungeon, sseVars>>
       ELSE IF ~guilds[g].exists
       THEN /\ dungeonReply' = DungeonAnswer(404, g, accountId, FALSE, FALSE, NoBank)
            /\ UNCHANGED <<guildBank, dungeon, sseVars>>
       ELSE LET floor == dungeon[g].floor
                level == dungeon[g].level
                elements == IF IsDemonLordDungeon(floor)
                            THEN CombinedElements(OnlineMembers(g)) ELSE {}
                playerPower4 == PlayerPower4(g, floor, effective)
                npcPower == DungeonNpcPower(floor, level)
                rewards == DungeonRewards(floor, level)
            IN  /\ effective => elements # {}
                /\ floor < 5 /\ elements # {} => effective
                /\ IF TooWeak(playerPower4, npcPower)
                   THEN /\ dungeonReply' =
                              DungeonAnswer(200, g, accountId, TRUE, FALSE, NoBank)
                        /\ UNCHANGED <<guildBank, dungeon, sseVars>>
                   ELSE IF Victory(playerPower4, Combined(OnlineMembers(g), "Luck"),
                                   random, npcPower)
                   THEN /\ guildBank' = [guildBank EXCEPT ![g] = newBank(@, rewards)]
                        /\ dungeon' = [dungeon EXCEPT ![g] = DungeonAdvance(floor, level)]
                        /\ broadcastToPlayers(MemberIds(g), "dungeonVictory")
                        /\ dungeonReply' =
                              DungeonAnswer(200, g, accountId, FALSE, TRUE, rewards)
                   ELSE /\ dungeonReply' =
                              DungeonAnswer(200, g, accountId, FALSE, FALSE, NoBank)
                        /\ UNCHANGED <<guildBank, dungeon, sseVars>>
    /\ UNCHANGED <<accounts, gold, activeSessions, now, ticks, last, aucVars, race,
                   tradeVars, chalVars, guildVars, pc, profiles, pets, result, npc,
                   guildNames, guildInvites>>

\* the stats of player 2 in the dungeon
DungeonStats ==
    {DefaultStats,
     [Str |-> N(200), Spd |-> 100, Int |-> 100, Luck |-> 10, Pot |-> 0],
     [Str |-> Titanic, Spd |-> 10, Int |-> 10, Luck |-> 10, Pot |-> 0]}

\* where guild 1 stands: the first level, a boss, the last level of a floor,
\* the last level of the Great Dungeon, the Demon Lord's Dungeon and its end
DungeonStandings ==
    {<<1, 1>>, <<1, 10>>, <<1, 50>>, <<25, 50>>, <<50, 50>>, <<51, 1>>, <<100, 50>>}

\* guild 1 of players 2 (its master), 3 and 4 somewhere in the dungeon, its
\* bank empty; players 2 and 3, 2 alone, or no member online
InitDungeon ==
    /\ accounts = [u \in Users |->
                     IF u = AdminId THEN [role |-> "admin"]
                     ELSE IF u \in Fighters THEN [role |-> "player"]
                     ELSE NoAccount]
    /\ gold = [u \in Users |-> 0]
    /\ \E online \in {{}, {2}, {2, 3}} : activeSessions = [u \in {AdminId} \cup online |-> 0]
    /\ now = 0
    /\ ticks = 0
    /\ last = Reply("init", 0, 0, 0)
    /\ auctions = <<>> /\ bids = <<>> /\ playerSkills = <<>> /\ applied = <<>>
    /\ race = RaceIdle
    /\ NoTrades
    /\ NoChallenges /\ NoSubscribers
    /\ pc = [h \in Handlers |-> 0]
    /\ InitPets
    /\ \E stats \in DungeonStats, p \in {0, 1, 2} :
          profiles = [u \in Users |->
                        IF u = 2 THEN [NoProfile EXCEPT !.stats = stats,
                                                        !.equippedPetId = p]
                        ELSE NoProfile]
    /\ result = NoResult /\ fought = 0 /\ npc = NoNpc
    /\ guilds = [g \in GuildIds |->
                   IF g = 1 THEN [masterId |-> 2, wins |-> 0, exists |-> TRUE]
                   ELSE NoGuild]
    /\ guildMembers = [u \in Users |-> IF u \in {2, 3, 4} THEN {1} ELSE {}]
    /\ guildBattles = <<>> /\ outcomes = <<>>
    /\ guildNames = [g \in GuildIds |-> IF g = 1 THEN Names[1] ELSE ""]
    /\ guildInvites = {}
    /\ guildBank = [g \in GuildIds |-> NoBank]
    /\ \E at \in DungeonStandings :
          dungeon = [g \in GuildIds |->
                       IF g = 1 THEN [floor |-> at[1], level |-> at[2]]
                       ELSE [floor |-> 1, level |-> 1]]
    /\ dungeonReply = NoDungeonReply

NextDungeon ==
    \E g \in GuildIds, accountId \in {2, 4, 5}, random \in 0..(Rolls - 1),
       effective \in BOOLEAN :
       DungeonFight(g, accountId, random, effective)

SpecDungeon == InitDungeon /\ [][NextDungeon]_vars

-----------------------------------------------------------------------------
(* The balances of the accounts and the guild bank                         *)

\* the resources a guild bank distributes
Resources == <<"gold", "rubies", "soulShards", "focusedShards", "runes">>

\* the balance f of account u: gold is stored by updateAccountGold, the
\* others by updateAccount and updateAccountResources
BalanceOf(u, f) == IF f = "gold" THEN gold[u] ELSE profiles[u][f]

\* storage.updateAccount(u, {f: value}) and its kin
updateBalance(u, f, value) ==
    IF f = "gold"
    THEN /\ gold' = [gold EXCEPT ![u] = value]
         /\ UNCHANGED profiles
    ELSE /\ profiles' = [profiles EXCEPT ![u][f] = value]
         /\ UNCHANGED gold

\* PATCH /api/accounts/:id with one of the balances in its body; the schema
\* bounds the number from above only
PatchAccount(id, f, value) ==
    /\ value <= MaxBalance
    /\ IF accounts[id] = NoAccount
       THEN /\ last' = Reply("patchAccount", id, 404, 0)
            /\ UNCHANGED <<gold, profiles>>
       ELSE /\ last' = Reply("patchAccount", id, 200, 0)
            /\ updateBalance(id, f, value)
    /\ UNCHANGED <<accounts, activeSessions, now, ticks, aucVars, race, tradeVars,
                   chalVars, guildVars, sseVars, pc, pets, result, fought, npc,
                   moreGuildVars>>

\* PATCH /api/accounts/:id/gold
PatchGold(id, value) ==
    /\ value <= MaxBalance
    /\ IF accounts[id] = NoAccount
       THEN /\ last' = Reply("patchGold", id, 404, 0)
            /\ UNCHANGED gold
       ELSE /\ last' = Reply("patchGold", id, 200, 0)
            /\ gold' = [gold EXCEPT ![id] = value]
    /\ UNCHANGED <<accounts, activeSessions, now, ticks, aucVars, race, tradeVars,
                   chalVars, guildVars, sseVars, moreVars>>

\* the value POST /api/admin/modify-player stores for a balance
Modified(old, action, value) ==
    IF action = "set" THEN value
    ELSE IF action = "add" THEN old + value
    ELSE IF action = "deduct" THEN old - value
    ELSE old

\* POST /api/admin/modify-player for the sections that are balances
ModifyPlayer(id, section, action, value) ==
    /\ Modified(BalanceOf(id, section), action, value) \in -MaxBalance..MaxBalance
    /\ IF accounts[id] = NoAccount
       THEN /\ last' = Reply("modifyPlayer", id, 404, 0)
            /\ UNCHANGED <<gold, profiles>>
       ELSE /\ last' = Reply("modifyPlayer", id, 200, 0)
            /\ updateBalance(id, section, Modified(BalanceOf(id, section), action, value))
    /\ UNCHANGED <<accounts, activeSessions, now, ticks, aucVars, race, tradeVars,
                   chalVars, guildVars, sseVars, pc, pets, result, fought, npc,
                   moreGuildVars>>

\* POST /api/guilds/:guildId/deposit
Deposit(g, accountId, resource, amount) ==
    /\ guildBank[g][resource] + amount <= MaxBank
    /\ IF accounts[accountId] = NoAccount
       THEN /\ last' = Reply("deposit", accountId, 404, 0)
            /\ UNCHANGED <<gold, profiles, guildBank>>
       ELSE IF g \notin guildMembers[accountId]
       THEN /\ last' = Reply("deposit", accountId, 403, 0)
            /\ UNCHANGED <<gold, profiles, guildBank>>
       ELSE IF ~guilds[g].exists
       THEN /\ last' = Reply("deposit", accountId, 404, 0)
            /\ UNCHANGED <<gold, profiles, guildBank>>
       ELSE IF BalanceOf(accountId, resource) < amount
       THEN /\ last' = Reply("deposit", accountId, 400, 0)
            /\ UNCHANGED <<gold, profiles, guildBank>>
       ELSE /\ last' = Reply("deposit", accountId, 200, 0)
            /\ updateBalance(accountId, resource, BalanceOf(accountId, resource) - amount)
            /\ guildBank' = [guildBank EXCEPT ![g][resource] = @ + amount]
    /\ UNCHANGED <<accounts, activeSessions, now, ticks, aucVars, race, tradeVars,
                   chalVars, guildVars, sseVars, pc, pets, result, fought, npc,
                   guildNames, guildInvites, dungeon, dungeonReply>>

\* one entry of distributions giving amount of resource f to accountId; a
\* resource the entry leaves out counts as 0
Share(accountId, f, amount) ==
    [r \in {"accountId", "gold", "rubies", "soulShards", "focusedShards", "runes"} |->
        IF r = "accountId" THEN accountId ELSE IF r = f THEN amount ELSE 0]

RECURSIVE Totals(_, _)
\* totals[f] over the distributions
Totals(distributions, f) ==
    IF distributions = <<>> THEN 0
    ELSE Head(distributions)[f] + Totals(Tail(distributions), f)

\* the distributions addressed to account u
To(distributions, u) == SelectSeq(distributions, LAMBDA d : d.accountId = u)

\* the accounts the distributions name
Named(distributions) == {distributions[i].accountId : i \in DOMAIN distributions}

\* the fields the loop passes to storage.updateAccount
CreditedFields == {"gold", "rubies", "soulShards", "focusedShards"}

\* the bank after the totals are taken from it
BankAfter(bank, distributions) ==
    [f \in DOMAIN bank |->
        IF f = "trainingPoints" THEN bank[f] ELSE bank[f] - Totals(distributions, f)]

\* POST /api/guilds/:guildId/distribute
Distribute(g, masterId, distributions) ==
    /\ \A u \in Named(distributions) : \A k \in 1..Len(Resources) :
          BalanceOf(u, Resources[k]) + Totals(To(distributions, u), Resources[k]) <= MaxBank
    /\ IF ~guilds[g].exists
       THEN /\ last' = Reply("distribute", masterId, 404, 0)
            /\ UNCHANGED <<gold, profiles, guildBank, sseVars>>
       ELSE IF guilds[g].masterId # masterId
       THEN /\ last' = Reply("distribute", masterId, 403, 0)
            /\ UNCHANGED <<gold, profiles, guildBank, sseVars>>
       ELSE IF \E k \in 1..Len(Resources) :
                  Totals(distributions, Resources[k]) > guildBank[g][Resources[k]]
       THEN /\ last' = Reply("distribute", masterId, 400, 0)
            /\ UNCHANGED <<gold, profiles, guildBank, sseVars>>
       ELSE LET found == {u \in Named(distributions) : accounts[u] # NoAccount}
            IN  /\ last' = Reply("distribute", masterId, 200, 0)
                /\ gold' = [u \in Users |->
                              IF u \in found
                              THEN gold[u] + Totals(To(distributions, u), "gold")
                              ELSE gold[u]]
                /\ profiles' = [u \in Users |->
                                  IF u \in found
                                  THEN [f \in DOMAIN profiles[u] |->
                                          IF f \in CreditedFields
                                          THEN profiles[u][f]
                                               + Totals(To(distributions, u), f)
                                          ELSE profiles[u][f]]
                                  ELSE profiles[u]]
                /\ broadcastToPlayers(found, "guildReward")
                /\ guildBank' = [guildBank EXCEPT ![g] = BankAfter(@, distributions)]
    /\ UNCHANGED <<accounts, activeSessions, now, ticks, aucVars, race, tradeVars,
                   chalVars, guildVars, pc, pets, result, fought, npc,
                   guildNames, guildInvites, dungeon, dungeonReply>>

\* the balances the requests name, the numbers they carry
Patched == {"runes"}
Sections == {"rubies"}
Numbers == {-1, 1}

\* the distributions the master asks for; account 5 does not exist
Distributions ==
    {<<>>,
     <<Share(3, "gold", 1)>>,
     <<Share(3, "runes", 1)>>,
     <<Share(3, "focusedShards", 1)>>,
     <<Share(2, "rubies", 1), Share(3, "rubies", 1)>>,
     <<Share(5, "gold", 1)>>}

\* guild 1 of master 2 and member 3, with something in its bank
InitBank ==
    /\ accounts = [u \in Users |->
                     IF u = AdminId THEN [role |-> "admin"]
                     ELSE IF u \in {2, 3} THEN [role |-> "player"]
                     ELSE NoAccount]
    /\ gold = [u \in Users |-> IF u = 2 THEN 1 ELSE 0]
    /\ activeSessions = [u \in {AdminId} |-> 0]
    /\ now = 0
    /\ ticks = 0
    /\ last = Reply("init", 0, 0, 0)
    /\ auctions = <<>> /\ bids = <<>> /\ playerSkills = <<>> /\ applied = <<>>
    /\ race = RaceIdle
    /\ NoTrades
    /\ NoChallenges /\ NoSubscribers
    /\ pc = [h \in Handlers |-> 0]
    /\ NoSolo
    /\ guilds = [g \in GuildIds |->
                   IF g = 1 THEN [masterId |-> 2, wins |-> 0, exists |-> TRUE]
                   ELSE NoGuild]
    /\ guildMembers = [u \in Users |-> IF u \in {2, 3} THEN {1} ELSE {}]
    /\ guildBattles = <<>> /\ outcomes = <<>>
    /\ guildNames = [g \in GuildIds |-> IF g = 1 THEN Names[1] ELSE ""]
    /\ guildInvites = {}
    /\ guildBank = [g \in GuildIds |->
                      IF g = 1 THEN [NoBank EXCEPT !.gold = 1, !.rubies = 2, !.runes = 1]
                      ELSE NoBank]
    /\ dungeon = [g \in GuildIds |-> [floor |-> 1, level |-> 1]]
    /\ dungeonReply = NoDungeonReply

NextBank ==
    \/ \E f \in Patched, value \in Numbers : PatchAccount(2, f, value)
    \/ \E value \in Numbers : PatchGold(2, value)
    \/ \E section \in Sections, action \in {"set", "add", "deduct"} :
          ModifyPlayer(2, section, action, 1)
    \/ \E g \in GuildIds, accountId \in {2, 4}, resource \in {"gold", "runes"} :
          Deposit(g, accountId, resource, 1)
    \/ \E g \in GuildIds, masterId \in {2, 3}, distributions \in Distributions :
          Distribute(g, masterId, distributions)

SpecBank == InitBank /\ [][NextBank]_vars

-----------------------------------------------------------------------------
(* The auction house with the timer's interval never ceasing to fire       *)

\* setInterval(..., 60000) runs its callback again and again for as long as
\* the server runs
SpecAuctionFair == InitAuction /\ [][NextAuction]_vars /\ WF_vars(AuctionTimer)

-----------------------------------------------------------------------------
(* Logins interleaved at their awaits.  pc of a login route is 0 when no   *)
(* request is in progress and otherwise the number, in Statements, of the  *)
(* call it awaits.                                                         *)

LoginHandlers == {"loginA", "loginB"}

\* the username each of the two concurrent requests carries
LoginUser(h) == IF h = "loginA" THEN NumUsers - 1 ELSE NumUsers

\* the request is parsed, cleanupInactiveSessions() runs, and the route
\* awaits storage.getAccountByUsername
LoginArrives(h) ==
    /\ pc[h] = 0
    /\ pc' = [pc EXCEPT ![h] = 1]
    /\ activeSessions' = cleanupInactiveSessions(activeSessions, now)
    /\ UNCHANGED <<accounts, gold, now, ticks, last, aucVars, race, tradeVars,
                   chalVars, guildVars, sseVars, soloVars, moreGuildVars>>

\* getAccountByUsername answers: an existing account goes on to
\* bcrypt.compare; a new username is tested against the capacity and goes on
\* to bcrypt.hash
LoginFound(h) ==
    /\ pc[h] = 1
    /\ IF accounts[LoginUser(h)] # NoAccount
       THEN /\ pc' = [pc EXCEPT ![h] = 4]
            /\ UNCHANGED last
       ELSE IF NewFull(activeSessions)
       THEN /\ pc' = [pc EXCEPT ![h] = 0]
            /\ last' = Reply("login", LoginUser(h), 503,
                             Cardinality(DOMAIN activeSessions))
       ELSE /\ pc' = [pc EXCEPT ![h] = 2]
            /\ UNCHANGED last
    /\ UNCHANGED <<accounts, gold, activeSessions, now, ticks, aucVars, race, tradeVars,
                   chalVars, guildVars, sseVars, soloVars, moreGuildVars>>

\* bcrypt.hash answers and storage.createAccount is called
LoginHashed(h, r) ==
    /\ pc[h] = 2
    /\ pc' = [pc EXCEPT ![h] = 3]
    /\ accounts' = [accounts EXCEPT ![LoginUser(h)] = [role |-> r]]
    /\ gold' = [gold EXCEPT ![LoginUser(h)] = IF r = "player" THEN STARTING_GOLD ELSE 0]
    /\ UNCHANGED <<activeSessions, now, ticks, last, aucVars, race, tradeVars,
                   chalVars, guildVars, sseVars, soloVars, moreGuildVars>>

\* createAccount answers: the session is set and the route replies 201
LoginCreated(h) ==
    /\ pc[h] = 3
    /\ pc' = [pc EXCEPT ![h] = 0]
    /\ activeSessions' = SetSession(activeSessions, LoginUser(h), now)
    /\ last' = Reply("login", LoginUser(h), 201, 0)
    /\ IF accounts[LoginUser(h)].role = "player"
       THEN broadcastToAdmins("newPlayer")
       ELSE UNCHANGED sseVars
    /\ UNCHANGED <<accounts, gold, now, ticks, aucVars, race, tradeVars,
                   chalVars, guildVars, soloVars, moreGuildVars>>

\* bcrypt.compare answers: the rest of the route for an existing account runs
\* without another await
LoginCompared(h, p, r) ==
    /\ pc[h] = 4
    /\ pc' = [pc EXCEPT ![h] = 0]
    /\ IF ~PasswordMatch(accounts[LoginUser(h)], p)
       THEN /\ last' = Reply("login", LoginUser(h), 401, 0)
            /\ UNCHANGED activeSessions
       ELSE IF RoleMismatch(accounts[LoginUser(h)], r)
       THEN /\ last' = Reply("login", LoginUser(h), 403, 0)
            /\ UNCHANGED activeSessions
       ELSE IF ExistingFull(activeSessions, LoginUser(h))
       THEN /\ last' = Reply("login", LoginUser(h), 503,
                             Cardinality(DOMAIN activeSessions))
            /\ UNCHANGED activeSessions
       ELSE /\ last' = Reply("login", LoginUser(h), 200, 0)
            /\ activeSessions' = SetSession(activeSessions, LoginUser(h), now)
    /\ UNCHANGED <<accounts, gold, now, ticks, aucVars, race, tradeVars,
                   chalVars, guildVars, sseVars, soloVars, moreGuildVars>>

\* the logins of two new usernames in any interleaving, logouts, the sweep
\* and the clock; the first player logs out and in again as one request
NextLogins ==
    \/ \E h \in LoginHandlers : LoginArrives(h)
    \/ \E h \in LoginHandlers : LoginFound(h)
    \/ \E h \in LoginHandlers, r \in Roles : LoginHashed(h, r)
    \/ \E h \in LoginHandlers : LoginCreated(h)
    \/ \E h \in LoginHandlers, p \in Passwords, r \in Roles : LoginCompared(h, p, r)
    \/ \E id \in Actors \cup {1} : Logout(id)
    \/ Login(1, "stored", "player")
    \/ Sweep
    \/ \E d \in TickSteps : Tick(d)

SpecLogins == InitSession /\ [][NextLogins]_vars

-----------------------------------------------------------------------------
(* Two trades open at once: player 2 trades with player 3 and with player 4 *)

TradeIds == {1, 2}

Parties == {2, 3, 4}

\* two pending trades of player 2, nothing attached yet
InitTwoTrades ==
    /\ accounts = [u \in Users |->
                     IF u = AdminId THEN [role |-> "admin"]
                     ELSE IF u \in Parties THEN [role |-> "player"]
                     ELSE NoAccount]
    /\ gold = [u \in Users |-> 0]
    /\ activeSessions = [u \in {AdminId, 2} |-> 0]
    /\ now = 0
    /\ ticks = 0
    /\ last = Reply("init", 0, 0, 0)
    /\ auctions = <<>> /\ bids = <<>> /\ applied = <<>>
    /\ playerSkills = <<[accountId |-> 2, skillId |-> "fireball", source |-> "auction"]>>
    /\ race = RaceIdle
    /\ trades = [t \in TradeIds |->
                   [initiatorId |-> 2, recipientId |-> t + 2,
                    initiatorAccepted |-> FALSE, recipientAccepted |-> FALSE,
                    status |-> "pending"]]
    /\ tradeItems = <<>>
    /\ inventory = <<2, 3>>
    /\ executions = [t \in TradeIds |-> 0]
    /\ acceptance = [t \in TradeIds |-> [since |-> {}, cleared |-> FALSE]]
    /\ NoRest

NextTwoTrades ==
    \/ \E t \in TradeIds, o \in Parties, ty \in ItemTypes, ref \in RefIds :
          AddItem(t, o, ty, ref)
    \/ \E t \in TradeIds, id \in Parties : Accept(t, id)
    \/ \E t \in TradeIds, id \in Parties : Cancel(t, id)

SpecTwoTrades == InitTwoTrades /\ [][NextTwoTrades]_vars

-----------------------------------------------------------------------------
(* Accepts of one trade interleaved at their awaits.  pc of an accept is 0 *)
(* when no request is in progress; 1 or 2 when it has read the trade and   *)
(* awaits its updateTrade, 2 if the trade it read had the other party's    *)
(* flag set; 3 when it goes on to transfer the items; 4 when it awaits the *)
(* updateTrade that completes the trade.                                   *)

AcceptHandlers == {"tradeAcceptA", "tradeAcceptB"}

\* the account each of the two concurrent requests carries
AcceptParty(h) == IF h = "tradeAcceptA" THEN 2 ELSE 3

\* storage.getTrade answers and the tests of the route pass: the route keeps
\* the trade it read
AcceptRead(h, t) ==
    /\ pc[h] = 0
    /\ t \in DOMAIN trades
    /\ trades[t].status = "pending"
    /\ AcceptParty(h) \in {trades[t].initiatorId, trades[t].recipientId}
    /\ pc' = [pc EXCEPT ![h] =
                IF BothAccepted(trades[t], AcceptParty(h) = trades[t].initiatorId,
                                AcceptParty(h) = trades[t].recipientId)
                THEN 2 ELSE 1]
    /\ UNCHANGED <<accounts, gold, activeSessions, now, ticks, last, aucVars, race,
                   tradeVars, chalVars, guildVars, sseVars, soloVars, moreGuildVars>>

\* storage.updateTrade(trade.id, updates) sets the flag of the caller; the
\* route replies unless the trade it had read carried the other flag
AcceptFlag(h, t) ==
    /\ pc[h] \in {1, 2}
    /\ pc' = [pc EXCEPT ![h] = IF pc[h] = 1 THEN 0 ELSE 3]
    /\ trades' = [trades EXCEPT
                    ![t].initiatorAccepted =
                        IF AcceptParty(h) = trades[t].initiatorId THEN TRUE ELSE @,
                    ![t].recipientAccepted =
                        IF AcceptParty(h) = trades[t].recipientId THEN TRUE ELSE @]
    /\ acceptance' = [acceptance EXCEPT ![t].since = @ \cup {AcceptParty(h)}]
    /\ UNCHANGED <<accounts, gold, activeSessions, now, ticks, last, aucVars, race,
                   tradeItems, inventory, executions,
                   chalVars, guildVars, sseVars, soloVars, moreGuildVars>>

\* the loop over storage.getTradeItems(trade.id)
AcceptTransfer(h, t) ==
    /\ pc[h] = 3
    /\ pc' = [pc EXCEPT ![h] = 4]
    /\ LET moved == Transfer(TradeItemsOf(t), trades[t], inventory, playerSkills)
       IN  /\ inventory' = moved.inventory
           /\ playerSkills' = moved.playerSkills
    /\ executions' = [executions EXCEPT ![t] = @ + 1]
    /\ UNCHANGED <<accounts, gold, activeSessions, now, ticks, last, auctions, bids,
                   applied, race, trades, tradeItems, acceptance,
                   chalVars, guildVars, sseVars, soloVars, moreGuildVars>>

\* storage.updateTrade(trade.id, {status: "completed", ...}) and the reply
AcceptComplete(h, t) ==
    /\ pc[h] = 4
    /\ pc' = [pc EXCEPT ![h] = 0]
    /\ trades' = [trades EXCEPT ![t].status = "completed"]
    /\ UNCHANGED <<accounts, gold, activeSessions, now, ticks, last, aucVars, race,
                   tradeItems, inventory, executions, acceptance,
                   chalVars, guildVars, sseVars, soloVars, moreGuildVars>>

\* one trade of players 2 and 3: items are attached, and the accepts of the
\* two players run in any interleaving
NextAccepts ==
    \/ CreateTrade(2, 3)
    \/ \E o \in Traders, ty \in ItemTypes, ref \in RefIds : AddItem(1, o, ty, ref)
    \/ \E h \in AcceptHandlers : AcceptRead(h, 1)
    \/ \E h \in AcceptHandlers : AcceptFlag(h, 1)
    \/ \E h \in AcceptHandlers : AcceptTransfer(h, 1)
    \/ \E h \in AcceptHandlers : AcceptComplete(h, 1)

SpecAccepts == InitTrade /\ [][NextAccepts]_vars

----------------------------------------------------------------------------
(* Claims about the session registry, under SpecSession *)

SessionCount == Cardinality(DOMAIN activeSessions)

Expired(id) == now - activeSessions[id] > SESSION_TIMEOUT

\* C1: after any sequence of login, heartbeat, logout, account-delete and
\* sweep operations the active-session map holds at most MAX_PLAYERS entries.
C1_CapacityNeverExceeded == SessionCount <= MAX_PLAYERS

\* a login has just filled the last free slot
C1_Witness ==
    /\ SessionCount = MAX_PLAYERS
    /\ last.op = "login" /\ last.status \in {200, 201}
    /\ last.sizeBefore = MAX_PLAYERS - 1 /\ ~last.had

\* C2: a rejected login creates no session and no account.  With the server
\* full and the username unknown, no account is created, no session is added
\* and the 503 reply carries the current and the maximum player counts; with
\* a wrong password or a role other than the stored one, the account gets no
\* session (and a session it holds is not refreshed).
C2_RejectedLoginCreatesNothing ==
    [][\A u \in {last'.id} \cap Users, p \in Passwords, r \in Roles :
        Login(u, p, r) =>
          /\ (accounts[u] = NoAccount
                /\ Cardinality(DOMAIN cleanupInactiveSessions(activeSessions, now))
                     >= MAX_PLAYERS)
             => /\ accounts' = accounts
                /\ DOMAIN activeSessions' \subseteq DOMAIN activeSessions
                /\ last'.status = 503
                /\ last'.currentPlayers = Cardinality(DOMAIN activeSessions')
                /\ last'.maxPlayers = MAX_PLAYERS
          /\ (accounts[u] # NoAccount /\ (p # "stored" \/ accounts[u].role # r))
             => /\ accounts' = accounts
                /\ last'.status \in {401, 403}
                /\ DOMAIN activeSessions' \subseteq DOMAIN activeSessions
                /\ u \in DOMAIN activeSessions'
                     => activeSessions'[u] = activeSessions[u]
      ]_vars

\* a login for an unknown username was refused by the full server, and a
\* login under the wrong role was refused earlier or later
C2_Witness ==
    /\ last.op = "login" /\ last.status = 503
    /\ accounts[last.id] = NoAccount
    /\ last.currentPlayers = MAX_PLAYERS
    /\ SessionCount = MAX_PLAYERS

\* C3 as stated: with MAX_PLAYERS sessions in the map, a login with the right
\* password and role for an account holding a non-expired session succeeds,
\* refreshes the session and leaves the session count unchanged.
C3_ReentrantLoginKeepsCount ==
    [][\A u \in {last'.id} \cap Users, r \in Roles :
        ( /\ Login(u, "stored", r)
          /\ SessionCount = MAX_PLAYERS
          /\ accounts[u] # NoAccount /\ accounts[u].role = r
          /\ u \in DOMAIN activeSessions /\ ~Expired(u) )
        => /\ last'.status = 200
           /\ activeSessions'[u] = now
           /\ Cardinality(DOMAIN activeSessions') = SessionCount
      ]_vars

\* C3 amended: such a login succeeds, refreshes the session and adds none:
\* the sessions it leaves are exactly those that had not expired, so the
\* count is unchanged when no session has expired and is smaller otherwise.
C3_ReentrantLoginAddsNoSession ==
    [][\A u \in {last'.id} \cap Users, r \in Roles :
        ( /\ Login(u, "stored", r)
          /\ SessionCount = MAX_PLAYERS
          /\ accounts[u] # NoAccount /\ accounts[u].role = r
          /\ u \in DOMAIN activeSessions /\ ~Expired(u) )
        => /\ last'.status = 200
           /\ activeSessions'[u] = now
           /\ DOMAIN activeSessions'
                = {id \in DOMAIN activeSessions : ~Expired(id)}
           /\ \A id \in DOMAIN activeSessions' \ {u} :
                activeSessions'[id] = activeSessions[id]
      ]_vars

\* a session holder has logged in again on the full server
C3_Witness ==
    /\ last.op = "login" /\ last.status = 200
    /\ last.had /\ last.sizeBefore = MAX_PLAYERS
    /\ SessionCount = MAX_PLAYERS
    /\ activeSessions[last.id] = now

\* C4: a sweep removes every session idle for more than SESSION_TIMEOUT and no
\* session idle for SESSION_TIMEOUT or less, whose lastActivity it keeps.
C4_SweepIsExact ==
    [][Sweep =>
        \A id \in DOMAIN activeSessions :
            IF now - activeSessions[id] > SESSION_TIMEOUT
            THEN id \notin DOMAIN activeSessions'
            ELSE /\ id \in DOMAIN activeSessions'
                 /\ activeSessions'[id] = activeSessions[id]
      ]_vars

\* a sweep has evicted sessions and kept one idle for exactly the threshold
C4_Witness ==
    /\ last.op = "sweep"
    /\ last.sizeBefore > SessionCount
    /\ \E id \in DOMAIN activeSessions : now - activeSessions[id] = SESSION_TIMEOUT

----------------------------------------------------------------------------
(* Claims about the skill auctions *)

\* C5: at every reachable state, over all the auction operations, at most one
\* skill auction has status active.
C5_AtMostOneActive == Cardinality(ActiveAuctions(auctions)) <= 1

\* the bids of auction a
BidsOf(a) == {b \in DOMAIN bids : bids[b].auctionId = a}

\* the bid of auction a no other bid of it exceeds, or 0
TopBid(a) ==
    IF BidsOf(a) = {} THEN 0
    ELSE CHOOSE b \in BidsOf(a) : \A c \in BidsOf(a) : bids[c].amount <= bids[b].amount

\* C6: the first finalization of an active auction (by the admin or by the
\* timer) debits a highest bidder who affords the bid by exactly its amount,
\* creates exactly one player-skill record for the auctioned skill and
\* completes the auction with that bidder as winner; in every other case it
\* completes the auction with no winner, no debit and no grant.
C6_FinalizeSettles ==
    [][\A a \in DOMAIN auctions :
        (auctions[a].status = "active" /\ ~applied[a].ran /\ applied'[a].ran)
        => LET hb == TopBid(a)
               w == bids[hb].bidderId
               x == bids[hb].amount
           IN  IF hb # 0 /\ accounts[w] # NoAccount /\ gold[w] >= x
               THEN /\ gold' = [gold EXCEPT ![w] = gold[w] - x]
                    /\ playerSkills' = Append(playerSkills,
                          [accountId |-> w, skillId |-> auctions[a].skillId,
                           source |-> "auction"])
                    /\ auctions'[a].status = "completed"
                    /\ auctions'[a].winnerId = w
               ELSE /\ auctions'[a].status = "completed"
                    /\ auctions'[a].winnerId = NoWinner
                    /\ gold' = gold
                    /\ playerSkills' = playerSkills
      ]_vars

\* the conditions under which C7 has a bid accepted
AcceptCond(a, id, x) ==
    /\ a \in DOMAIN auctions /\ auctions[a].status = "active"
    /\ accounts[id] # NoAccount /\ gold[id] >= x
    /\ \A b \in BidsOf(a) : x > bids[b].amount

\* C7: a bid of amount x is accepted (its record is appended) if and only if
\* the auction is active, x is above every bid of the auction and the bidder's
\* gold covers x; a rejected bid creates no record; the amounts of the bids of
\* an auction increase strictly in insertion order.
C7_BidAcceptedIff ==
    /\ \A b, c \in DOMAIN bids :
         (b < c /\ bids[b].auctionId = bids[c].auctionId)
         => bids[b].amount < bids[c].amount
    /\ Len(bids) < MaxBids =>
         \A a \in 1..MaxAuctions, id \in Bidders \cup {UnknownId}, x \in Amounts :
            IF AcceptCond(a, id, x)
            THEN /\ ENABLED (Bid(a, id, x) /\ bids' # bids)
                 /\ ~ENABLED (Bid(a, id, x)
                              /\ bids' # Append(bids, [auctionId |-> a,
                                                       bidderId |-> id,
                                                       amount |-> x]))
            ELSE ~ENABLED (Bid(a, id, x) /\ bids' # bids)

\* a second, higher bid was accepted on an auction that is still active, and
\* a bidder who could not pay more is left
C7_Witness ==
    /\ Len(bids) = 2
    /\ bids[1].auctionId = bids[2].auctionId
    /\ bids[1].bidderId # bids[2].bidderId
    /\ auctions[bids[1].auctionId].status = "active"

\* C8: with the timer's finalization and the admin's interleaved at their
\* awaits, the winner of an auction is debited at most once and receives at
\* most one skill grant for it.
C8_OneFinalizationApplies ==
    \A a \in DOMAIN applied : applied[a].debits <= 1 /\ applied[a].grants <= 1

----------------------------------------------------------------------------
(* Claims about trading                                                    *)

BothFlags(trade) == trade.initiatorAccepted /\ trade.recipientAccepted

Executed(t) == executions'[t] = executions[t] + 1

\* C9: over any sequence of add-item, accept and cancel requests the items of
\* a trade change owner at most once per trade; ownership changes only in a
\* step that executes a trade; the executing step is an accept on a pending
\* trade that turns the two acceptance flags from not both true to both true,
\* and every accept that makes both flags true executes.
C9_TransferOnceWhenBothAccept ==
    [][/\ (inventory' # inventory \/ playerSkills' # playerSkills)
            => \E t \in DOMAIN trades : Executed(t)
       /\ \A t \in DOMAIN trades :
            /\ executions'[t] \in {executions[t], executions[t] + 1}
            /\ executions'[t] <= 1
            /\ Executed(t) =>
                 /\ trades[t].status = "pending"
                 /\ ~BothFlags(trades[t])
                 /\ BothFlags(trades'[t])
                 /\ trades'[t].status = "completed"
            /\ (~BothFlags(trades[t]) /\ BothFlags(trades'[t])) => Executed(t)
      ]_vars

\* a completed trade whose item went from the initiator to the recipient
C9_Witness ==
    \E t \in DOMAIN trades :
        /\ executions[t] = 1
        /\ trades[t].status = "completed"
        /\ \E k \in DOMAIN tradeItems :
             /\ tradeItems[k].tradeId = t
             /\ tradeItems[k].type = "item"
             /\ inventory[tradeItems[k].refId] # tradeItems[k].ownerId

\* C10: a step that attaches an item attaches it to a pending trade and leaves
\* both acceptance flags of that trade false; a trade that is not pending
\* keeps its items and its record under add-item; and a trade executes only
\* when both parties have accepted since the last change of its item list.
C10_AddItemResetsAcceptance ==
    [][/\ tradeItems' # tradeItems =>
            /\ Len(tradeItems') = Len(tradeItems) + 1
            /\ SubSeq(tradeItems', 1, Len(tradeItems)) = tradeItems
            /\ LET t == tradeItems'[Len(tradeItems')].tradeId
               IN  /\ t \in DOMAIN trades
                   /\ trades[t].status = "pending"
                   /\ trades'[t].status = "pending"
                   /\ ~trades'[t].initiatorAccepted
                   /\ ~trades'[t].recipientAccepted
       /\ \A t \in DOMAIN trades :
            Executed(t) =>
                acceptance'[t].since = {trades[t].initiatorId, trades[t].recipientId}
      ]_vars

\* a trade that executed after an added item had cleared an acceptance
C10_Witness ==
    \E t \in DOMAIN trades :
        /\ acceptance[t].cleared
        /\ executions[t] = 1
        /\ \E k \in DOMAIN tradeItems : tradeItems[k].tradeId = t

----------------------------------------------------------------------------
(* Claims about the challenge engine, under SpecChallenge                  *)

\* C11: the status of a challenge only moves from pending to accepted,
\* declined or cancelled: no step changes the status of a challenge that is
\* not pending (accept, decline and cancel on it change nothing), so declined
\* and cancelled are terminal.
C11_StatusOnlyLeavesPending ==
    [][\A c \in DOMAIN challenges :
         challenges'[c].status # challenges[c].status
         => /\ challenges[c].status = "pending"
            /\ challenges'[c].status \in {"accepted", "declined", "cancelled"}
            /\ challenges'[c] = [challenges[c] EXCEPT !.status = challenges'[c].status]
      ]_vars

\* a challenge was declined, and its challenger's account deleted since
C11_Witness ==
    \E c \in DOMAIN challenges :
        /\ challenges[c].status = "declined"
        /\ accounts[challenges[c].challengerId] = NoAccount

\* C12: a winner is recorded only on a challenge that is accepted (so one
\* that was pending before), and only a participant is recorded; wins and
\* losses change only in a step that records a participant as winner of an
\* accepted challenge, so a failed assignment changes neither the challenge
\* nor any account's wins and losses.
C12_WinnerOnlyWhenAccepted ==
    [][/\ \A c \in DOMAIN challenges :
            challenges'[c].winnerId # challenges[c].winnerId
            => /\ challenges[c].status = "accepted"
               /\ challenges'[c].status = "accepted"
               /\ challenges'[c].winnerId \in
                     {challenges[c].challengerId, challenges[c].challengedId}
       /\ (wins' # wins \/ losses' # losses)
            => \E c \in DOMAIN challenges :
                  /\ challenges[c].status = "accepted"
                  /\ challenges'[c].winnerId \in
                        {challenges[c].challengerId, challenges[c].challengedId}
                  /\ awards'[c].sets = awards[c].sets + 1
      ]_vars

\* the challenged player was recorded as winner of an accepted challenge
C12_Witness ==
    \E c \in DOMAIN challenges :
        /\ challenges[c].status = "accepted"
        /\ challenges[c].winnerId = challenges[c].challengedId
        /\ wins[challenges[c].challengedId] = 1
        /\ losses[challenges[c].challengerId] = 1

\* C13: over any sequence of winner assignments on a challenge, wins and
\* losses are given for it once each at most, and a winner once set never
\* changes.
C13_WinnerSetOnce ==
    [][\A c \in DOMAIN challenges :
         /\ awards'[c].wins <= 1
         /\ awards'[c].losses <= 1
         /\ challenges[c].winnerId # NoChallengeWinner
               => challenges'[c].winnerId = challenges[c].winnerId
      ]_vars

----------------------------------------------------------------------------
(* Claims about the guild battles                                          *)

\* the rounds a side won among the recorded outcomes of battle b
RoundsWon(b, side) ==
    Cardinality({i \in DOMAIN outcomes[b] : outcomes[b][i] = side})

\* battle b has three fighters a side and its rounds so far went to the
\* challenger, the challenged, the challenged, in this order
ThreeRoundsPlayed(b) ==
    /\ Len(guildBattles[b].challengerFighters) = 3
    /\ Len(guildBattles[b].challengedFighters) = 3
    /\ outcomes[b] = <<"challenger", "challenged", "challenged">>

\* C14 as stated: with three fighters a side and round winners challenger,
\* challenged, challenged, the battle is completed after these three rounds,
\* with score 1-2 and the challenged guild as winner.
C14_CompleteAfterThreeRounds ==
    \A b \in DOMAIN guildBattles :
        ThreeRoundsPlayed(b)
        => /\ guildBattles[b].status = "completed"
           /\ guildBattles[b].challengerScore = 1
           /\ guildBattles[b].challengedScore = 2
           /\ guildBattles[b].winnerId = guildBattles[b].challengedGuildId

\* C14 amended: after these three rounds the battle is still in progress, at
\* round 4 with score 1-2, the challenger on its third fighter and the
\* challenged on its second; the score is always the rounds each side won; a
\* battle of three a side is completed only when a side has lost three
\* rounds, and then the guild with the higher score is its winner.
C14_InProgressAfterThreeRounds ==
    \A b \in DOMAIN guildBattles :
        LET battle == guildBattles[b]
        IN  /\ battle.challengerScore = RoundsWon(b, "challenger")
            /\ battle.challengedScore = RoundsWon(b, "challenged")
            /\ ThreeRoundsPlayed(b)
               => /\ battle.status = "in_progress"
                  /\ battle.currentRound = 4
                  /\ battle.challengerScore = 1 /\ battle.challengedScore = 2
                  /\ battle.challengerCurrentIndex = 2
                  /\ battle.challengedCurrentIndex = 1
                  /\ battle.winnerId = NoGuildWinner
            /\ (/\ battle.status = "completed"
                /\ Len(battle.challengerFighters) = 3
                /\ Len(battle.challengedFighters) = 3)
               => /\ 3 \in {RoundsWon(b, "challenger"), RoundsWon(b, "challenged")}
                  /\ Len(outcomes[b]) \in 3..5
                  /\ battle.winnerId =
                        IF battle.challengerScore > battle.challengedScore
                        THEN battle.challengerGuildId ELSE battle.challengedGuildId

\* the three rounds of the claim have been played
C14_Witness ==
    \E b \in DOMAIN guildBattles : ThreeRoundsPlayed(b)

\* fighter w is the one battle b has at the index of its challenger side
IsChallengerCurrent(b, w) ==
    w = FighterAt(guildBattles[b].challengerFighters,
                  guildBattles[b].challengerCurrentIndex)

\* fighter w is the one battle b has at the index of its challenged side
IsChallengedCurrent(b, w) ==
    w = FighterAt(guildBattles[b].challengedFighters,
                  guildBattles[b].challengedCurrentIndex)

\* the step gives battle b's round to its challenger side
ChallengerTakesRound(b) ==
    /\ guildBattles'[b].challengerScore = guildBattles[b].challengerScore + 1
    /\ guildBattles'[b].challengerCurrentIndex = guildBattles[b].challengerCurrentIndex
    /\ guildBattles'[b].challengedScore = guildBattles[b].challengedScore
    /\ guildBattles'[b].challengedCurrentIndex =
          guildBattles[b].challengedCurrentIndex + 1

\* the step gives battle b's round to its challenged side
ChallengedTakesRound(b) ==
    /\ guildBattles'[b].challengedScore = guildBattles[b].challengedScore + 1
    /\ guildBattles'[b].challengedCurrentIndex = guildBattles[b].challengedCurrentIndex
    /\ guildBattles'[b].challengerScore = guildBattles[b].challengerScore
    /\ guildBattles'[b].challengerCurrentIndex =
          guildBattles[b].challengerCurrentIndex + 1

\* C15: on a battle in progress, the designation of one of the two current
\* fighters is taken and gives the round to that fighter's side: its score
\* +1 and its index unchanged, the other side's index +1 and its score
\* unchanged; the designation of anyone else changes nothing; no step of the
\* system lowers a score or a round number.
C15_RoundScoresWinnerAdvancesLoser ==
    /\ \A b \in DOMAIN guildBattles, w \in Fighters :
         guildBattles[b].status = "in_progress"
         => IF IsChallengerCurrent(b, w) \/ IsChallengedCurrent(b, w)
            THEN /\ ENABLED (RoundWinner(b, w) /\ guildBattles' # guildBattles)
                 /\ ~ENABLED (/\ RoundWinner(b, w)
                              /\ ~ \/ IsChallengerCurrent(b, w) /\ ChallengerTakesRound(b)
                                   \/ IsChallengedCurrent(b, w) /\ ChallengedTakesRound(b))
            ELSE ~ENABLED (RoundWinner(b, w) /\ <<guildBattles, guilds>>' # <<guildBattles, guilds>>)
    /\ ~ENABLED (/\ NextGuild
                 /\ \E b \in DOMAIN guildBattles :
                       \/ guildBattles'[b].challengerScore < guildBattles[b].challengerScore
                       \/ guildBattles'[b].challengedScore < guildBattles[b].challengedScore
                       \/ guildBattles'[b].currentRound < guildBattles[b].currentRound)

\* a battle in progress in which each side has won a round
C15_Witness ==
    \E b \in DOMAIN guildBattles :
        /\ guildBattles[b].status = "in_progress"
        /\ guildBattles[b].challengerScore = 1
        /\ guildBattles[b].challengedScore = 1
        /\ guildBattles[b].challengerCurrentIndex = 1
        /\ guildBattles[b].challengedCurrentIndex = 1
        /\ guildBattles[b].currentRound = 3

\* a side of the battle has its index at the end of its fighter list
Exhausted(battle) ==
    \/ battle.challengerCurrentIndex = Len(battle.challengerFighters)
    \/ battle.challengedCurrentIndex = Len(battle.challengedFighters)

\* C16: a battle becomes completed in exactly the round that brings a side's
\* index to the length of its fighter list (a battle in progress has both
\* indices inside the lists), and once completed no request changes its
\* scores, indices, status or winner, nor anything else of it.
C16_CompletesOnceWhenExhausted ==
    [][\A b \in DOMAIN guildBattles :
         LET battle == guildBattles[b]
             after == guildBattles'[b]
         IN  /\ battle.status = "completed" => after = battle
             /\ after.status = "in_progress" => ~Exhausted(after)
             /\ (battle.status # "completed" /\ after.status = "completed")
                => /\ battle.status = "in_progress"
                   /\ ~Exhausted(battle)
                   /\ Exhausted(after)
                   /\ \/ ChallengerTakesRound(b)
                      \/ ChallengedTakesRound(b)
      ]_vars

\* a battle completed by the challenger side running out of fighters, while
\* the challenged guild and its master are still there to respond
C16_Witness ==
    \E b \in DOMAIN guildBattles :
        /\ guildBattles[b].status = "completed"
        /\ guildBattles[b].challengerCurrentIndex = Len(guildBattles[b].challengerFighters)
        /\ guildBattles[b].challengedCurrentIndex > 0
        /\ guilds[guildBattles[b].challengedGuildId].exists

\* the battles the step completes with guild g as their winner
CompletedFor(g) ==
    {b \in DOMAIN guildBattles :
        /\ guildBattles[b].status # "completed"
        /\ guildBattles'[b].status = "completed"
        /\ guildBattles'[b].winnerId = g}

\* C17: the step that completes a battle records as winner the guild with
\* the strictly higher score, and none when the scores are equal; the wins
\* of a guild grow by exactly one for each battle completed with it as
\* winner, and the wins of no other guild change.
C17_WinnerByScoreOneWin ==
    [][/\ \A b \in DOMAIN guildBattles :
            (guildBattles[b].status # "completed" /\ guildBattles'[b].status = "completed")
            => guildBattles'[b].winnerId =
                  IF guildBattles'[b].challengerScore > guildBattles'[b].challengedScore
                  THEN guildBattles[b].challengerGuildId
                  ELSE IF guildBattles'[b].challengerScore < guildBattles'[b].challengedScore
                  THEN guildBattles[b].challengedGuildId
                  ELSE NoGuildWinner
       /\ \A b \in DOMAIN guildBattles :
            guildBattles'[b].status # "completed" => guildBattles'[b].winnerId = NoGuildWinner
       /\ \A g \in GuildIds :
            guilds'[g].exists
            => guilds'[g].wins = guilds[g].wins + Cardinality(CompletedFor(g))
      ]_vars

\* one battle completed with the challenged guild ahead and one win to its
\* name, the challenger guild at none
C17_Witness ==
    \E b \in DOMAIN guildBattles :
        /\ guildBattles[b].status = "completed"
        /\ guildBattles[b].challengedScore > guildBattles[b].challengerScore
        /\ guildBattles[b].challengerScore > 0
        /\ guildBattles[b].winnerId = guildBattles[b].challengedGuildId
        /\ guildBattles[b].challengerGuildId # guildBattles[b].challengedGuildId
        /\ guilds[guildBattles[b].challengedGuildId].wins = 1
        /\ guilds[guildBattles[b].challengerGuildId].exists
        /\ guilds[guildBattles[b].challengerGuildId].wins = 0

\* C18: a battle leaves pending only by a respond of the master of the
\* challenged guild: to in_progress, with round 1 and a non-empty list of
\* challenged fighters who are all members of the challenged guild, or to
\* declined; anyone else's respond changes nothing; no side has more than
\* four fighters.
C18_RespondByTargetMaster ==
    /\ \A b \in DOMAIN guildBattles :
         /\ Len(guildBattles[b].challengerFighters) <= MAX_FIGHTERS
         /\ Len(guildBattles[b].challengedFighters) <= MAX_FIGHTERS
         /\ guildBattles[b].status = "in_progress" =>
               Len(guildBattles[b].challengedFighters) >= 1
         /\ guildBattles[b].status = "pending" =>
               /\ \A id \in {2, 3, 4}, accept \in BOOLEAN, g \in GuildIds :
                    \A f \in Lineups(g) :
                       NotTargetMaster(guildBattles[b], id)
                       => ~ENABLED (RespondBattle(b, id, accept, f)
                                    /\ guildBattles' # guildBattles)
               /\ ~ENABLED (/\ NextGuild
                            /\ guildBattles'[b].status # "pending"
                            /\ ~ \/ /\ guildBattles'[b] =
                                         [guildBattles[b] EXCEPT
                                            !.status = "in_progress",
                                            !.currentRound = 1,
                                            !.challengedFighters =
                                               guildBattles'[b].challengedFighters]
                                    /\ AllMembers(guildBattles'[b].challengedFighters,
                                                  guildBattles[b].challengedGuildId)
                                 \/ guildBattles'[b] =
                                       [guildBattles[b] EXCEPT !.status = "declined"])

----------------------------------------------------------------------------
(* Claims about the event streams                                          *)

\* the sinks subscriber id got from the events route of that kind
SinksOf(kind, id) ==
    {k \in DOMAIN sinks : sinks[k].kind = kind /\ sinks[k].id = id}

\* the sink of the subscriber's most recent connection
Newest(kind, id) ==
    CHOOSE k \in SinksOf(kind, id) : \A j \in SinksOf(kind, id) : j <= k

Registry(kind) ==
    IF kind = "admin" THEN adminSSEConnections ELSE playerSSEConnections

\* C19: a subscriber whose most recent connection is open, with a sink no
\* write has failed on, is registered with exactly that sink, whatever
\* happened to its earlier, replaced connections.
C19_NewestOpenSinkRegistered ==
    \A kind \in {"admin", "player"}, id \in Users :
        (/\ SinksOf(kind, id) # {}
         /\ sinks[Newest(kind, id)].open
         /\ ~sinks[Newest(kind, id)].broken)
        => Registry(kind)[id] = Newest(kind, id)

\* the sinks a publish to the admins and to player p writes to
Addressed(p) ==
    ({adminSSEConnections[u] : u \in Users} \cup {playerSSEConnections[p]}) \ {0}

AcceptPublishes(c) ==
    /\ c \in DOMAIN challenges
    /\ challenges[c].status = "pending"
    /\ challenges'[c].status = "accepted"

\* C20: when accepting a challenge publishes its event, every addressed
\* subscriber whose sink fails the write is removed from its map, every
\* other addressed subscriber stays registered and receives the event, and
\* the route still records the acceptance and replies 200.
C20_FailedWriteRemovesOnlyThatSubscriber ==
    [][\A c \in 1..MaxChallenges : AcceptPublishes(c) =>
          /\ last' = Reply("acceptChallenge", c, 200, 0)
          /\ challenges' = updateChallengeStatus(c, "accepted")
          /\ \A kind \in {"admin", "player"}, u \in Users :
                LET k == Registry(kind)[u] IN
                IF k \in Addressed(challenges[c].challengerId)
                   /\ (kind = "admin" \/ u = challenges[c].challengerId)
                THEN IF sinks[k].broken
                     THEN /\ Registry(kind)'[u] = 0
                          /\ sinks'[k] = sinks[k]
                     ELSE /\ Registry(kind)'[u] = k
                          /\ sinks'[k].received =
                                Append(sinks[k].received, "challengeAccepted")
                ELSE Registry(kind)'[u] = k
    ]_vars

\* an accepted challenge whose event failed on one admin's sink, which is
\* registered no more, and reached another admin and the challenger
C20_Witness ==
    /\ last = Reply("acceptChallenge", 1, 200, 0)
    /\ challenges[1].status = "accepted"
    /\ \E k \in DOMAIN sinks :
          /\ sinks[k].kind = "admin" /\ sinks[k].open /\ sinks[k].broken
          /\ k = Newest("admin", sinks[k].id)
          /\ adminSSEConnections[sinks[k].id] = 0
    /\ \E k \in DOMAIN sinks :
          /\ sinks[k].kind = "admin"
          /\ adminSSEConnections[sinks[k].id] = k
          /\ sinks[k].received = <<"connected", "challengeAccepted">>
    /\ \E k \in DOMAIN sinks :
          /\ playerSSEConnections[Challenger] = k
          /\ sinks[k].received = <<"connected", "challengeAccepted">>

----------------------------------------------------------------------------
(* Claims about the order of updates and events                            *)

\* sink k is written event in this step
Written(k, event) ==
    /\ k \in DOMAIN sinks
    /\ sinks'[k].received = Append(sinks[k].received, event)

\* the storage holds what accepting challenge 1 leaves
AcceptApplied == challenges[1].status = "accepted"

\* the storage holds what completing guild battle 1 leaves
CompleteApplied ==
    /\ guildBattles[1].status = "completed"
    /\ guildBattles[1].winnerId = 1
    /\ guilds[1].wins = 1

\* the storage holds what finalizing auction 1 leaves
FinalizeApplied ==
    /\ auctions[1].status = "completed"
    /\ auctions[1].winnerId = 2
    /\ gold[2] = 0
    /\ \E i \in DOMAIN playerSkills : playerSkills[i].accountId = 2

Fought == fought' # fought /\ last'.op = "npcBattle" /\ last'.status = 200

\* the player of the battle request of this step
Fighter == last'.id

\* the NPC the player stands before
FloorOf(id) == profiles[id].npcFloor

LevelOf(id) == profiles[id].npcLevel

\* the player's power against the NPC it stands before
PowerOf(id) ==
    PlayerPower(id, getNpcImmuneElements(GlobalLevel(FloorOf(id), LevelOf(id))))

\* C22: a solo battle is won exactly when the effective player power,
\* power * (1 + random * Luck / 100), is at least the effective NPC power,
\* the NPC power times 1.2 at level 100; a power that is at least the
\* effective NPC power wins whatever the roll; at floor 1 level 1 a power of
\* 1 or more always wins.
C22_WonIffEffectivePowerSuffices ==
    [][Fought =>
         LET power == PowerOf(Fighter)
             luck == profiles[Fighter].stats.Luck
             roll == result'.roll
             floor == FloorOf(Fighter)
             level == LevelOf(Fighter)
             won == result'.won
         IN  /\ power.hi > 0 => won
             /\ power.hi = 0 /\ floor <= 2 =>
                   LET npcTimes5 == (IF level = 100 THEN 6 ELSE 5) * getNpcPower(floor, level)
                   IN  /\ won <=> 5 * power.lo * (100 * Rolls + roll * luck)
                                    >= npcTimes5 * 100 * Rolls
                       /\ 5 * power.lo >= npcTimes5 => won
             /\ power.hi = 0 /\ floor > 2 /\ power.lo < getNpcPowerRange(2).max => ~won
             /\ floor = 1 /\ level = 1 /\ (power.hi > 0 \/ power.lo >= 1) => won
    ]_vars

\* a boss of floor 1 beaten by the luck roll alone: the raw power is below
\* the effective NPC power
C22_Witness ==
    /\ result.won /\ result.roll > 0
    /\ result.floor = 1 /\ result.level = 100
    /\ LET power == PlayerPower(result.accountId, result.npcImmunities)
       IN  power.hi = 0 /\ 5 * power.lo < 6 * getNpcPower(1, 100)

\* what the player holds of pet experience: its own and that of its pets
PetExpOf(id) ==
    LET Exp[S \in SUBSET PetIds] ==
            IF S = {} THEN 0
            ELSE LET p == CHOOSE p \in S : TRUE
                 IN  (IF pets[p] # NoPet /\ pets[p].accountId = id THEN pets[p].exp ELSE 0)
                     + Exp[S \ {p}]
    IN  profiles[id].petExp + Exp[PetIds]

\* C23: a win at global level g on floor f is rewarded with gold 50 g,
\* training points 10 g, soul shards 2 g, pet experience 100 g and runes
\* 10 f at level 100, else 0, each credited to the winner; a loss changes
\* nothing.
C23_RewardsCreditedToWinner ==
    [][\A id \in Players : Fought /\ Fighter = id =>
         LET f == FloorOf(id)
             g == GlobalLevel(f, LevelOf(id))
         IN  IF result'.won
             THEN /\ result'.rewards =
                        [gold |-> 50 * g, trainingPoints |-> 10 * g, soulShards |-> 2 * g,
                         petExp |-> 100 * g,
                         runes |-> IF LevelOf(id) = 100 THEN 10 * f ELSE 0]
                  /\ gold'[id] = gold[id] + 50 * g
                  /\ profiles'[id].trainingPoints = profiles[id].trainingPoints + 10 * g
                  /\ profiles'[id].soulShards = profiles[id].soulShards + 2 * g
                  /\ profiles'[id].runes
                       = profiles[id].runes + (IF LevelOf(id) = 100 THEN 10 * f ELSE 0)
                  /\ PetExpOf(id)' = PetExpOf(id) + 100 * g
             ELSE /\ gold' = gold /\ profiles' = profiles /\ pets' = pets
    ]_vars

\* C24 as stated: every win moves the player one global level on.
C24_EveryWinAdvances ==
    [][\A id \in Players : Fought /\ Fighter = id /\ result'.won =>
         GlobalLevel(FloorOf(id), LevelOf(id))' = GlobalLevel(FloorOf(id), LevelOf(id)) + 1
    ]_vars

\* C24: a win below floor 50 level 100 advances the player by exactly one
\* level, from level 100 to level 1 of the next floor; a win at floor 50
\* level 100 leaves the player there; the floor never exceeds 50 and the
\* global level never decreases and never skips.
C24_WinAdvancesBelowTheTop ==
    [][\A id \in Players :
       LET floor == FloorOf(id)
           level == LevelOf(id)
       IN  /\ FloorOf(id)' <= 50
           /\ GlobalLevel(FloorOf(id), LevelOf(id))' - GlobalLevel(floor, level) \in {0, 1}
           /\ Fought /\ Fighter = id /\ result'.won =>
                 /\ level < 100 => FloorOf(id)' = floor /\ LevelOf(id)' = level + 1
                 /\ level = 100 /\ floor < 50 => FloorOf(id)' = floor + 1 /\ LevelOf(id)' = 1
                 /\ level = 100 /\ floor = 50 => FloorOf(id)' = 50 /\ LevelOf(id)' = 100
           /\ ~(Fought /\ Fighter = id /\ result'.won) =>
                 FloorOf(id)' = floor /\ LevelOf(id)' = level
    ]_vars

\* the last boss beaten, the player still before it
C24_Witness ==
    /\ result.won /\ result.floor = 50 /\ result.level = 100
    /\ profiles[result.accountId].npcFloor = 50
    /\ profiles[result.accountId].npcLevel = 100

\* the index in playerRanks of the rank a global level asks for, 0 where it
\* asks for none
RankIndexNeeded(g) ==
    IF g <= 100 THEN 0
    ELSE IF g <= 200 THEN 1
    ELSE IF g <= 500 THEN 2
    ELSE IF g <= 1000 THEN 3
    ELSE IF g <= 2000 THEN 4
    ELSE IF g <= 3000 THEN 5
    ELSE IF g <= 4000 THEN 6
    ELSE 7

\* C25: a battle request of a player whose rank is below the rank of the
\* global level (none to 100, Apprentice to 200, Journeyman to 500, Expert to
\* 1000, Master to 2000, Grandmaster to 3000, Legend to 4000, Elite above) is
\* rejected, and balances, pet and progress stay as they are.
C25_UnderRankedRejected ==
    [][\A id \in Players :
          /\ fought' # fought /\ last'.op = "npcBattle" /\ last'.id = id
          /\ accounts[id] # NoAccount /\ accounts[id].role = "player"
          /\ \E i \in DOMAIN playerRanks :
                /\ playerRanks[i] = profiles[id].rank
                /\ i - 1 < RankIndexNeeded(GlobalLevel(FloorOf(id), LevelOf(id)))
          => /\ last'.status = 403
             /\ gold' = gold /\ profiles' = profiles /\ pets' = pets
    ]_vars

\* a Novice strong enough for the first NPC of floor 2 was turned away
C25_Witness ==
    /\ last.op = "npcBattle" /\ last.status = 403
    /\ profiles[last.id].rank = "Novice"
    /\ profiles[last.id].npcFloor = 2 /\ profiles[last.id].npcLevel = 1
    /\ profiles[last.id].stats.Str = Titanic
    /\ fought = 1 /\ gold[last.id] = 0 /\ result = NoResult

\* the elements of a list
Range(list) == {list[i] : i \in DOMAIN list}

\* C26: the immunities of an NPC are a function of its global level: none
\* below 101; from 101 on, on floor f, min(floor(f / 5) + 1, 5) pairwise
\* distinct elements of the 18 known ones, the same ordered list whenever the
\* same NPC is asked for.
C26_ImmunitiesDeterminedByLevel ==
    npc.status = 200 =>
       LET g == npc.globalLevel
           f == npc.floor
           list == npc.immuneElements
           count == IF f \div 5 + 1 < 5 THEN f \div 5 + 1 ELSE 5
       IN  /\ g = (f - 1) * 100 + npc.level
           /\ g < 101 => list = <<>>
           /\ g >= 101 =>
                 /\ Len(list) = count
                 /\ \A i, j \in DOMAIN list : list[i] = list[j] => i = j
                 /\ Range(list) \subseteq Range(allElements)
           /\ Cardinality(Range(allElements)) = 18
           /\ list = getNpcImmuneElements(g)

\* the last NPC with its five immunities, where the first NPC of floor 2 has
\* its single one
C26_Witness ==
    /\ npc.status = 200 /\ npc.floor = 50 /\ npc.level = 100
    /\ Len(npc.immuneElements) = 5
    /\ getNpcImmuneElements(101) = <<"Hybrid">>

\* the five stat fields of inventory row i, a missing field counting 0
FiveFields(i) ==
    LET Field(f) == IF f \in DOMAIN ItemStats(i) THEN ItemStats(i)[f] ELSE 0
    IN  Field("Str") + Field("Spd") + Field("Int") + Field("Luck") + Field("Pot")

\* what row i adds to the strength of its owner: nothing for no row and for
\* a row that is not in the owner's inventory
Contribution(id, i) ==
    IF i \in DOMAIN inventory /\ inventory[i] = id THEN FiveFields(i) ELSE 0

\* the number of slots of the account that refer to row i
SlotsReferring(id, i) ==
    Cardinality({k \in DOMAIN Slots : profiles[id].equipped[Slots[k]] = i})

\* C27: the strength of a player is the sum of its five base stats, of the
\* five stat fields (missing = 0) of each row of its inventory that one of the
\* four slots refers to, and of Str + Spd + Luck + ElementalPower of its
\* equipped pet; it depends on the rows referred to and not on their slots;
\* equipping or unequipping one item changes it by exactly the stat sum of
\* that item.
C27_StrengthIsSumOfStatsGearAndPet ==
    [][LET id == 2
           stats == profiles[id].stats
           pet == pets[profiles[id].equippedPetId]
           strength == calculatePlayerStrength(id)
       IN  /\ strength.hi = stats.Str.hi
           /\ strength.lo =
                 stats.Str.lo + stats.Spd + stats.Int + stats.Luck + stats.Pot
                 + SlotsReferring(id, 1) * Contribution(id, 1)
                 + SlotsReferring(id, 2) * Contribution(id, 2)
                 + SlotsReferring(id, 3) * Contribution(id, 3)
                 + (IF profiles[id].equippedPetId # 0 /\ pet # NoPet
                    THEN pet.stats.Str + pet.stats.Spd + pet.stats.Luck
                         + (IF "ElementalPower" \in DOMAIN pet.stats
                            THEN pet.stats.ElementalPower ELSE 0)
                    ELSE 0)
           /\ \A k \in DOMAIN Slots, i \in 1..3 :
                 /\ profiles[id].equipped[Slots[k]] = 0
                 /\ profiles' = [profiles EXCEPT ![id].equipped[Slots[k]] = i]
                 => calculatePlayerStrength(id)'.lo = strength.lo + Contribution(id, i)
           /\ \A k \in DOMAIN Slots, i \in 1..3 :
                 /\ profiles[id].equipped[Slots[k]] = i
                 /\ profiles' = [profiles EXCEPT ![id].equipped[Slots[k]] = 0]
                 => calculatePlayerStrength(id)'.lo = strength.lo - Contribution(id, i)
    ]_vars

\* row 1 worn twice, row 2 once, a row of another player in the last slot,
\* and the pet with elemental power equipped: 40 + 7 + 7 + 8 + 0 + 100
C27_Witness ==
    /\ profiles[2].equipped =
          [weapon |-> 1, armor |-> 2, accessory1 |-> 1, accessory2 |-> 3]
    /\ profiles[2].equippedPetId = 1
    /\ calculatePlayerStrength(2) = N(162)

\* C28: whatever guilds are created, whoever is invited, accepts, declines,
\* leaves or is kicked, and whatever is disbanded, every guild has at most 4
\* members and every account is a member of at most one guild.
C28_FourMembersOneGuild ==
    /\ \A g \in GuildIds : Cardinality({u \in Users : g \in guildMembers[u]}) <= 4
    /\ \A u \in Users : Cardinality(guildMembers[u]) <= 1

\* a guild with its four members, a fifth invitation still open
C28_Witness ==
    /\ Cardinality({u \in Users : 1 \in guildMembers[u]}) = 4
    /\ \E u \in Users : guildMembers[u] = {} /\ <<1, u>> \in guildInvites

\* C29: the master of every existing guild is one of its members; no leave
\* and no kick request takes the master's membership while the guild exists.
C29_MasterIsMember ==
    \A g \in GuildIds : guilds[g].exists => g \in guildMembers[guilds[g].masterId]

\* a dungeon fight of this step was answered 200
DungeonFought == fought' # fought /\ dungeonReply'.status = 200

\* C30: a dungeon victory adds its rewards to the bank of the guild and to
\* nothing else: the balances of every account, of the requester and of the
\* online members too, stay as they are; a fight that is lost, or refused
\* because the combined power is below 40% of the NPC power, changes neither
\* the bank nor the dungeon progress.
C30_RewardsGoToTheBankOnly ==
    [][DungeonFought =>
         /\ gold' = gold /\ profiles' = profiles /\ pets' = pets
         /\ \A g \in GuildIds :
               IF dungeonReply'.victory /\ dungeonReply'.guildId = g
               THEN \A f \in DOMAIN NoBank :
                       guildBank'[g][f] = guildBank[g][f] + dungeonReply'.rewards[f]
               ELSE guildBank'[g] = guildBank[g] /\ dungeon'[g] = dungeon[g]
         /\ PlayerPower4(1, dungeon[1].floor, FALSE).hi = 0
            /\ PlayerPower4(1, dungeon[1].floor, TRUE).lo * 5
                  < 8 * DungeonNpcPower(dungeon[1].floor, dungeon[1].level)
            /\ dungeonReply'.guildId = 1
            => dungeonReply'.refused /\ ~dungeonReply'.victory
    ]_vars

\* the boss of floor 1 level 50 beaten: gold and rubies in the bank, the
\* guild on floor 2, the members' own balances as before
C30_Witness ==
    /\ dungeonReply.status = 200 /\ dungeonReply.victory
    /\ guildBank[1].gold = 130000 /\ guildBank[1].rubies = 250
    /\ dungeon[1] = [floor |-> 2, level |-> 1]
    /\ \A u \in Users : gold[u] = 0 /\ profiles[u].trainingPoints = 0

\* the levels of the dungeon before the one the guild stands at
DungeonPosition(g) == (dungeon[g].floor - 1) * 50 + dungeon[g].level

\* C31: a dungeon victory moves the guild's shared progress on by exactly
\* one level, the floor never exceeds 100, and the progress never moves
\* backwards.
C31_DungeonProgressAdvancesByOne ==
    [][\A g \in GuildIds :
          /\ dungeon'[g].floor <= 100
          /\ DungeonPosition(g)' >= DungeonPosition(g)
          /\ DungeonFought /\ dungeonReply'.victory /\ dungeonReply'.guildId = g
             => DungeonPosition(g)' = DungeonPosition(g) + 1
    ]_vars


\* C32: every balance of every account (gold, rubies, soulShards,
\* focusedShards, trainingPoints, petExp, runes) and every balance of every
\* guild bank is at least 0.
C32_BalancesNeverNegative ==
    /\ \A u \in Users :
          /\ gold[u] >= 0
          /\ \A f \in {"rubies", "soulShards", "focusedShards", "trainingPoints",
                       "petExp", "runes"} : profiles[u][f] >= 0
    /\ \A g \in GuildIds : \A f \in DOMAIN guildBank[g] : guildBank[g][f] >= 0


RECURSIVE HeldBy(_, _)
\* what the accounts 1 to n hold of resource f, together
HeldBy(n, f) ==
    IF n = 0 THEN 0 ELSE BalanceOf(n, f) + HeldBy(n - 1, f)

\* what the banks of the two guilds hold of resource f, together
InBanks(f) == guildBank[1][f] + guildBank[2][f]

\* the last request was a distribution answered with status
Distributed(status) == last'.op = "distribute" /\ last'.status = status

\* C38: a distribution conserves each of gold, rubies, soulShards,
\* focusedShards and runes: what leaves the guild bank is what the accounts
\* gain; a distribution refused for lack of funds changes no balance.
C38_DistributionConserves ==
    [][/\ Distributed(200) =>
            \A k \in 1..Len(Resources) :
               InBanks(Resources[k]) - InBanks(Resources[k])'
                  = HeldBy(NumUsers, Resources[k])' - HeldBy(NumUsers, Resources[k])
       /\ Distributed(400) => UNCHANGED <<gold, profiles, guildBank>>
    ]_vars


\* auction a is active and its end timestamp has been reached
ActiveAndExpired(a) ==
    a \in DOMAIN auctions /\ auctions[a].status = "active" /\ AuctionExpired(auctions, a)

\* C33: with the timer ticking for ever, an active auction whose end
\* timestamp has been reached is eventually completed, and the timer step
\* that completes it makes the first queued auction active in the same step.
C33_ExpiredAuctionEventuallyCompleted ==
    /\ \A a \in 1..MaxAuctions :
          ActiveAndExpired(a) ~> (a \in DOMAIN auctions /\ auctions[a].status = "completed")
    /\ [][\A a \in 1..MaxAuctions :
             AuctionTimer /\ ActiveAndExpired(a) /\ auctions'[a].status = "completed"
             /\ FirstQueued(auctions) # 0
             => auctions'[FirstQueued(auctions)].status = "active"
       ]_vars


\* C34: whatever the interleaving of the login routes at their awaits, the
\* activeSessions map never holds more than MAX_PLAYERS entries.
C34_CapacityUnderInterleaving ==
    Cardinality(DOMAIN activeSessions) <= MAX_PLAYERS


\* C37: a trade leaves pending only for completed or cancelled, and a trade
\* that is completed or cancelled keeps its status whatever request follows.
C37_TradeStatusOneWay ==
    [][\A t \in DOMAIN trades :
          /\ trades'[t].status \in {"pending", "completed", "cancelled"}
          /\ trades[t].status # "pending" => trades'[t].status = trades[t].status
    ]_vars


\* trade t executes in this step
Executes(t) == trades[t].status = "pending" /\ trades'[t].status = "completed"

\* an item of the given type and id is attached to trade t under the tag owner
Attached(t, type, refId, owner) ==
    \E i \in DOMAIN tradeItems :
       tradeItems[i] = [tradeId |-> t, ownerId |-> owner, type |-> type, refId |-> refId]

\* C36: an executing trade moves an inventory item or a skill only away from
\* the party it was tagged with when it was attached to that trade: nothing
\* is taken from an account that no longer (or never) was that party.
C36_TransferOnlyFromTaggedOwner ==
    [][\A t \in DOMAIN trades : Executes(t) =>
          /\ \A ref \in DOMAIN inventory :
                inventory'[ref] # inventory[ref]
                => /\ Attached(t, "item", ref, inventory[ref])
                   /\ inventory[ref] \in {trades[t].initiatorId, trades[t].recipientId}
          /\ \A ref \in DOMAIN playerSkills :
                playerSkills'[ref].accountId # playerSkills[ref].accountId
                => /\ Attached(t, "skill", ref, playerSkills[ref].accountId)
                   /\ playerSkills[ref].accountId
                         \in {trades[t].initiatorId, trades[t].recipientId}
    ]_vars


\* no accept of a trade is part-way through its route
AcceptsAtRest == \A h \in AcceptHandlers : pc[h] = 0

\* C35: whatever the interleaving of the accepts of a trade, its items are
\* transferred at most once, and the trade does not rest with both
\* acceptance flags true, status pending and nothing transferred.
C35_AcceptsInterleaved ==
    \A t \in DOMAIN trades :
       /\ executions[t] <= 1
       /\ ~(/\ AcceptsAtRest
            /\ trades[t].initiatorAccepted /\ trades[t].recipientAccepted
            /\ trades[t].status = "pending"
            /\ executions[t] = 0)


\* the side of guild battle b whose fighter index has reached the end of its
\* list: all of its fighters are eliminated
Eliminated(b) ==
    LET battle == guildBattles[b]
    IN  (IF OutOfFighters(battle.challengerCurrentIndex, battle.challengerFighters)
         THEN {battle.challengerGuildId} ELSE {})
        \cup
        (IF OutOfFighters(battle.challengedCurrentIndex, battle.challengedFighters)
         THEN {battle.challengedGuildId} ELSE {})

\* C39: in a completed guild battle, whatever the lengths of the two fighter
\* lists, the side whose fighters are all eliminated is not the recorded
\* winner.
C39_EliminatedSideNeverWins ==
    \A b \in DOMAIN guildBattles :
       guildBattles[b].status = "completed" => guildBattles[b].winnerId \notin Eliminated(b)

\* C40: in an in-progress guild battle each side's score is the other side's
\* fighter index, both indices are inside their fighter lists, and
\* currentRound = 1 + challengerScore + challengedScore; a battle of n and m
\* fighters has taken at most n + m - 1 rounds, completed or not.
C40_ScoresMirrorIndices ==
    \A b \in DOMAIN guildBattles :
       LET battle == guildBattles[b]
           n == Len(battle.challengerFighters)
           m == Len(battle.challengedFighters)
       IN  /\ battle.status = "in_progress" =>
                /\ battle.challengerScore = battle.challengedCurrentIndex
                /\ battle.challengedScore = battle.challengerCurrentIndex
                /\ battle.challengerCurrentIndex < n
                /\ battle.challengedCurrentIndex < m
                /\ battle.currentRound = 1 + battle.challengerScore + battle.challengedScore
                /\ Len(outcomes[b]) = battle.currentRound - 1
           /\ battle.status \in {"in_progress", "completed"} =>
                Len(outcomes[b]) <= n + m - 1

\* a battle of four against four is still in progress in its seventh round
C40_Witness ==
    \E b \in DOMAIN guildBattles :
       /\ guildBattles[b].status = "in_progress"
       /\ Len(guildBattles[b].challengerFighters) = 4
       /\ Len(guildBattles[b].challengedFighters) = 4
       /\ guildBattles[b].currentRound = 7
       /\ guildBattles[b].challengerScore = 3
       /\ guildBattles[b].challengedCurrentIndex = 3

============================================================================
